---------------------------- MODULE Spec2Model ----------------------------
(***************************************************************************)
(* A model of the session-scoped job execution and log streaming of the    *)
(* Excel translator service:                                               *)
(*   app/utils/log_handler.py      the queue registry and SSELogHandler    *)
(*   app/utils/progress_tracker.py ProgressTracker and its registry        *)
(*   app/services/translator.py    translate_csv and _translate_in_chunks  *)
(*   app/api/routes.py             run_translation_task_full, stream_logs  *)
(*                                                                         *)
(* Scheduling.  Every endpoint and the background job are coroutines of    *)
(* one asyncio event loop.  run_translation_task_full (routes.py 79-225)   *)
(* contains no await: once the loop starts it, it runs to its end before   *)
(* any other coroutine is resumed.  The model splits the job into steps so *)
(* that its intermediate states can be inspected, and the variable `loop`  *)
(* names the job that holds the event loop; no other coroutine steps       *)
(* while a job holds it.  event_generator (routes.py 263-299) suspends at  *)
(* `await request.is_disconnected()`, at each `yield` and at               *)
(* `await asyncio.sleep(1)`; its steps run from one suspension to the next.*)
(***************************************************************************)
EXTENDS Integers, Sequences, FiniteSets, TLC

\* Identities.  Session ids are client-supplied strings; jobs and stream
\* connections are the background tasks and the HTTP streaming responses.
Sessions == {"s1", "s2"}
NoSession == "none"
Jobs == {"j1", "j2"}
Conns == {"c1", "c2"}
NoJob == "nojob"
NoQueue == 0

\* translator.py 107
CHUNK_SIZE == 5

\* Bounds of the model: the chunk counts given to a tracker, the rows of a sheet when one job is examined alone,
\* and the rows of a small sheet when jobs run beside streams (a large sheet
\* there has CHUNK_SIZE rows more).
MaxChunks == 7
MaxRows == 12
SmallRows == 1

(***************************************************************************)
(* progress_tracker.py                                                     *)
(***************************************************************************)

\* class TranslationStage, in definition (iteration) order.
StageOrder == <<"upload", "preparation", "translation", "excel_generation", "complete">>

Stages == {StageOrder[i] : i \in 1..Len(StageOrder)}

\* ProgressTracker.STAGE_WEIGHTS
STAGE_WEIGHTS ==
    [s \in Stages |->
        CASE s = "upload" -> 10
          [] s = "preparation" -> 10
          [] s = "translation" -> 60
          [] s = "excel_generation" -> 15
          [] s = "complete" -> 5]

\* Position of a stage in the enum.
StageIndex(stage) == CHOOSE i \in 1..Len(StageOrder) : StageOrder[i] = stage

\* The loop of get_stage_start_percentage: walk the enum, stop at `stage`,
\* add the weight of every stage passed.
RECURSIVE StartLoop(_, _, _)
StartLoop(i, stage, start) ==
    IF i > Len(StageOrder) THEN start
    ELSE IF StageOrder[i] = stage THEN start
    ELSE StartLoop(i + 1, stage, start + STAGE_WEIGHTS[StageOrder[i]])

\* (variant) the weight added before the comparison: the stage's own weight
\* is counted.
get_stage_end_percentage(stage) == StartLoop(1, stage, 0) + STAGE_WEIGHTS[stage]

get_stage_start_percentage(stage) == StartLoop(1, stage, 0)

\* ProgressTracker.__init__
NewTracker == [current_stage |-> "upload", total_chunks |-> 0, completed_chunks |-> 0]

\* (variant) round(base_progress + chunk_progress) instead of int(...).
calculate_progress_rounded(t) ==
    LET base_progress == get_stage_start_percentage(t.current_stage)
    IN  IF t.current_stage = "translation" /\ t.total_chunks > 0
        THEN base_progress
               + (2 * t.completed_chunks * STAGE_WEIGHTS["translation"] + t.total_chunks)
                    \div (2 * t.total_chunks)
        ELSE base_progress

\* calculate_progress.  int(base + (completed / total) * 60) is the floor of
\* the exact quotient for every 0 <= completed, 1 <= total <= 400 (the float
\* product never falls below the integer it approximates in that range).
calculate_progress(t) ==
    LET base_progress == get_stage_start_percentage(t.current_stage)
    IN  IF t.current_stage = "translation" /\ t.total_chunks > 0
        THEN base_progress
               + (t.completed_chunks * STAGE_WEIGHTS["translation"]) \div t.total_chunks
        ELSE base_progress

\* set_stage: the tracker after the call, and the percentage it reports.
set_stage(t, stage) == [t EXCEPT !.current_stage = stage]

set_stage_pct(t, stage) == calculate_progress(set_stage(t, stage))

\* set_translation_chunks
\* (variant) the total is recorded and the completed count is kept.
set_translation_chunks_keep(t, total) == [t EXCEPT !.total_chunks = total]

set_translation_chunks(t, total) ==
    [t EXCEPT !.total_chunks = total, !.completed_chunks = 0]

\* (variant) the total given to the call is not stored.
increment_chunk_keep_total(t, current, total) ==
    [t EXCEPT !.completed_chunks = current]

\* increment_chunk
increment_chunk(t, current, total) ==
    [t EXCEPT !.completed_chunks = current, !.total_chunks = total]

increment_chunk_pct(t, current, total) ==
    calculate_progress(increment_chunk(t, current, total))

\* complete_stage: reports the end of `stage`; the tracker is not changed.
complete_stage(t, stage) == t

complete_stage_pct(t, stage) ==
    get_stage_start_percentage(stage) + STAGE_WEIGHTS[stage]

(***************************************************************************)
(* State                                                                   *)
(***************************************************************************)
VARIABLES
    log_queues,         \* log_handler.log_queues: session id -> queue object (NoQueue: no key)
    queues,             \* the queue.Queue objects ever created, by identity: their contents
    handlers,           \* the SSELogHandler objects attached to the root logger
    progress_trackers,  \* progress_tracker._progress_trackers: session id -> tracker
    issued,             \* the ids create_session has returned
    loop,               \* the job that holds the event loop, or NoJob
    job,                \* per background task: position and locals of run_translation_task_full
    conn,               \* per streaming connection: position and locals of event_generator
    clock,              \* the number of log records created so far (LogRecord.created)
    emitted,            \* history: the records each job has logged, in order
    enqBy,              \* history: how many queue entries each job's handler has put
    pt,                 \* a ProgressTracker driven directly through its methods
    ptOut               \* the value the last method called on pt returned

vars == <<log_queues, queues, handlers, progress_trackers, issued, loop, job, conn,
          clock, emitted, enqBy, pt, ptOut>>

sysvars == <<log_queues, queues, handlers, progress_trackers, issued, loop, job, conn,
             clock, emitted, enqBy>>

NoTracker == [current_stage |-> "absent", total_chunks |-> 0, completed_chunks |-> 0]

NoErr == [type |-> "none", chunk |-> 0]

Min(a, b) == IF a < b THEN a ELSE b

(***************************************************************************)
(* log_handler.py                                                          *)
(***************************************************************************)

\* A logging call of job j: level, message text (as its parts) and creation
\* stamp.  src names the job whose code made the call; it is not part of
\* what the handler stores.
LogRecord(j, level, kind, stage, pct, cur, tot, ts) ==
    [src |-> j, levelname |-> level, created |-> ts,
     msg |-> [kind |-> kind, stage |-> stage, pct |-> pct, cur |-> cur, tot |-> tot]]

\* The proto-records of one step, stamped in order from clock + 1.
Stamp(j, protos, now) ==
    [n \in 1..Len(protos) |->
        LogRecord(j, protos[n][1], protos[n][2], protos[n][3], protos[n][4],
                  protos[n][5], protos[n][6], now + n)]

\* SSELogHandler.emit, lines 24-32: the dict put on the queue.
Entry(r) ==
    [level |-> r.levelname, message |-> [src |-> r.src, text |-> r.msg],
     timestamp |-> r.created]

\* The handlers whose emit puts on queue object q: `if self.session_id in
\* log_queues: log_queues[self.session_id].put(...)`.
PutsOn(hs, lq, q) == {h \in hs : lq[h.session_id] = q}

RECURSIVE Times(_, _)
Times(e, n) == IF n = 0 THEN <<>> ELSE <<e>> \o Times(e, n - 1)

\* (variant) a handler that puts at the front of its queue.
emit_front(qs, hs, lq, r) ==
    [q \in 1..Len(qs) |-> Times(Entry(r), Cardinality(PutsOn(hs, lq, q))) \o qs[q]]

\* One record handed to every handler of the root logger.
emit(qs, hs, lq, r) ==
    [q \in 1..Len(qs) |-> qs[q] \o Times(Entry(r), Cardinality(PutsOn(hs, lq, q)))]

RECURSIVE EmitAll(_, _, _, _)
EmitAll(qs, hs, lq, recs) ==
    IF recs = <<>> THEN qs
    ELSE EmitAll(emit(qs, hs, lq, Head(recs)), hs, lq, Tail(recs))

\* (variant) the insert made on a membership test that is no longer true: the
\* queue is created whether or not the id has one.
HandlerInitStale(lq, qs, sid) ==
    [lq |-> [lq EXCEPT ![sid] = Len(qs) + 1], qs |-> Append(qs, <<>>)]

\* SSELogHandler.__init__, lines 18-19: create the queue if the id has none.
HandlerInit(lq, qs, sid) ==
    IF lq[sid] = NoQueue
    THEN [lq |-> [lq EXCEPT ![sid] = Len(qs) + 1], qs |-> Append(qs, <<>>)]
    ELSE [lq |-> lq, qs |-> qs]

\* (variant) log_queues.clear()
cleanup_session_clear(lq, sid) == [s \in DOMAIN lq |-> NoQueue]

\* cleanup_session
cleanup_session(lq, sid) ==
    IF lq[sid] # NoQueue THEN [lq EXCEPT ![sid] = NoQueue] ELSE lq

\* get_log_queue: log_queues.get(session_id); NoQueue stands for None.
get_log_queue(lq, sid) == lq[sid]

\* create_session: a fresh id (uuid4: one that no request has carried yet)
\* and a new queue under it.
CreateSession(s) ==
    /\ loop = NoJob
    /\ s \notin issued
    /\ \A j \in Jobs : job[j].sid # s
    /\ \A c \in Conns : conn[c].sid # s
    /\ issued' = issued \cup {s}
    /\ log_queues' = [log_queues EXCEPT ![s] = Len(queues) + 1]
    /\ queues' = Append(queues, <<>>)
    /\ UNCHANGED <<handlers, progress_trackers, loop, job, conn, clock, emitted,
                   enqBy, pt, ptOut>>

(***************************************************************************)
(* progress_tracker.py: the tracker registry                               *)
(***************************************************************************)

\* get_progress_tracker: create the tracker if the id has none.
get_progress_tracker(pts, sid) ==
    IF pts[sid] = NoTracker THEN [pts EXCEPT ![sid] = NewTracker] ELSE pts

\* cleanup_progress_tracker
cleanup_progress_tracker(pts, sid) ==
    IF pts[sid] # NoTracker THEN [pts EXCEPT ![sid] = NoTracker] ELSE pts

(***************************************************************************)
(* translator.py                                                           *)
(***************************************************************************)

\* The rows of a sheet of R rows (_csv_to_json): row n is the number n.
RowsOf(R) == [n \in 1..R |-> n]

\* (variant) json_data[i:i + chunk_size - 1]
SliceShort(rows, i, size) == SubSeq(rows, i + 1, Min(i + size - 1, Len(rows)))

\* json_data[i:i + chunk_size]
Slice(rows, i, size) == SubSeq(rows, i + 1, Min(i + size, Len(rows)))

\* total_chunks = (len(json_data) + chunk_size - 1) // chunk_size
TotalChunks(R, size) == (R + size - 1) \div size

\* chunk_num = (i // chunk_size) + 1
\* (variant) chunks numbered from 0.
ChunkNumFromZero(i, size) == i \div size

ChunkNum(i, size) == (i \div size) + 1

\* What the external transform returns for `rows`: the translation of row n
\* is -n; "short" is a reply that lost its last row.
Translated(rows) == [n \in 1..Len(rows) |-> 0 - rows[n]]

TransformReply(rows, outcome) ==
    IF outcome = "short" THEN SubSeq(Translated(rows), 1, Len(rows) - 1)
    ELSE Translated(rows)

\* The outcomes the transform call can have on `rows`.
Outcomes(rows) == IF Len(rows) > 0 THEN {"ok", "short", "fail"} ELSE {"ok", "fail"}

\* _json_to_csv: "" for no rows, else a header line and one line per row.
json_to_csv(json_data) ==
    IF json_data = <<>> THEN [header |-> FALSE, lines |-> <<>>]
    ELSE [header |-> TRUE, lines |-> json_data]

(***************************************************************************)
(* routes.py: run_translation_task_full                                    *)
(***************************************************************************)

\* What can go wrong in a job: reading the upload raises, the sheet does not
\* parse, a transform call fails or loses a row, writing the workbook raises.
AllFaults == {"upload", "parse", "fail", "short", "generate"}

\* What can go wrong outside the try block: FileHandler() cannot make the
\* temp directory (line 95, file_handler.py 15), cleanup_file cannot unlink
\* the saved upload (line 225, file_handler.py 55-56).
OutsideFaults == {"init", "cleanup"}

Flag(F, fault) == IF fault \in F THEN BOOLEAN ELSE {TRUE}

\* Proto-records: <<level, kind, stage, pct, cur, tot>>.  One Info record
\* stands for each run of consecutive logger.info calls that carry no stage,
\* percentage, chunk number or marker.
Info(kind) == <<"INFO", kind, "", 0, 0, 0>>
Warn(kind) == <<"WARNING", kind, "", 0, 0, 0>>
Err(kind, cur, tot) == <<"ERROR", kind, "", 0, cur, tot>>
ChunkInfo(kind, cur, tot) == <<"INFO", kind, "", 0, cur, tot>>
\* set_stage's "MILESTONE: msg (p%)", complete_stage's "COMPLETE: msg (p%)",
\* increment_chunk's "PROGRESS: msg (p%)".
Milestone(stage, pct) == <<"INFO", "milestone", stage, pct, 0, 0>>
MilestoneError(stage, pct) == <<"INFO", "milestone_error", stage, pct, 0, 0>>
Completed(stage, pct) == <<"INFO", "stage_complete", stage, pct, 0, 0>>
Progress(stage, pct, cur, tot) == <<"INFO", "progress", stage, pct, cur, tot>>

IdleJob ==
    [pc |-> "idle", ext |-> "", response |-> 0,
     sid |-> NoSession, sheets |-> <<>>, k |-> 0, i |-> 0,
     acc |-> <<>>, dict |-> <<>>, err |-> NoErr, calls |-> <<>>,
     log_handler |-> FALSE, result |-> "none", raised |-> FALSE]

\* `if progress_tracker:` -- the job has a tracker exactly when it has a session id.
HasTracker(j) == job[j].sid # NoSession

\* The records a step makes only `if progress_tracker:`.
IfTracker(j, protos) == IF HasTracker(j) THEN protos ELSE <<>>

\* Job j logs `protos`: every record goes to every handler attached to the
\* root logger (hs), which puts it on its session's queue if the id has one.
Log(j, protos, hs, lq, qs) ==
    LET recs == Stamp(j, protos, clock)
    IN  /\ queues' = EmitAll(qs, hs, lq, recs)
        /\ clock' = clock + Len(protos)
        /\ emitted' = [emitted EXCEPT ![j] = @ \o recs]
        /\ enqBy' = [h \in Jobs |->
                        IF \E x \in hs : x.h = h /\ lq[x.session_id] # NoQueue
                        THEN enqBy[h] + Len(protos) ELSE enqBy[h]]

\* (variant) the job awaits between its steps, so other coroutines run.
YieldsLoop(j) == FALSE

\* Whether the job may keep the event loop between two of its steps.  The
\* coroutine has no await (routes.py 79-225), so it always does.
HoldsLoop(j) == TRUE

AfterStep(j) == IF HoldsLoop(j) THEN j ELSE NoJob

Runs(j) == loop = j \/ (loop = NoJob /\ ~HoldsLoop(j))

\* settings.ALLOWED_EXTENSIONS (config.py 17), and the extensions an upload
\* may carry: the allowed ones and one that is not.
ALLOWED_EXTENSIONS == {".xlsx", ".csv"}

Extensions == ALLOWED_EXTENSIONS \cup {".txt"}

\* translate_file, lines 49-76: without a key from the form or the settings
\* the request is answered 400; otherwise the upload is read, the task is
\* added to the response's background tasks and the request is answered 200.
\* has_key: `api_key if api_key else settings.OPENAI_API_KEY` is not empty.
TranslateFile(j, has_key, ext, sid, sheets) ==
    /\ loop = NoJob
    /\ job[j].pc = "idle"
    /\ job' = [job EXCEPT ![j] =
                 IF ~has_key
                 THEN [IdleJob EXCEPT !.pc = "rejected", !.response = 400]
                 ELSE [IdleJob EXCEPT !.pc = "queued", !.response = 200, !.ext = ext,
                                      !.sid = sid, !.sheets = sheets]]
    /\ UNCHANGED <<log_queues, queues, handlers, progress_trackers, issued, loop, conn,
                   clock, emitted, enqBy, pt, ptOut>>

\* Line 95, when FileHandler() raises: the exception leaves the coroutine
\* before the try block is entered; nothing was attached and nothing is logged.
JobInitRaises(j) ==
    /\ job' = [job EXCEPT ![j].pc = "done", ![j].raised = TRUE]
    /\ UNCHANGED <<log_queues, queues, handlers, progress_trackers, issued, loop, conn,
                   clock, emitted, enqBy, pt, ptOut>>

\* Lines 100-106: attach the handler, fetch the tracker, enter Upload.
JobEnterTry(j) ==
    /\ LET sid == job[j].sid
           hi == IF sid # NoSession THEN HandlerInit(log_queues, queues, sid)
                 ELSE [lq |-> log_queues, qs |-> queues]
           hs == IF sid # NoSession
                 THEN handlers \cup {[h |-> j, session_id |-> sid]} ELSE handlers
           pts == IF sid # NoSession
                  THEN get_progress_tracker(progress_trackers, sid)
                  ELSE progress_trackers
       IN  /\ log_queues' = hi.lq
           /\ handlers' = hs
           /\ progress_trackers' =
                 IF sid # NoSession
                 THEN [pts EXCEPT ![sid] = set_stage(@, "upload")] ELSE pts
           /\ Log(j, IF sid # NoSession
                     THEN <<Milestone("upload", set_stage_pct(pts[sid], "upload"))>>
                     ELSE <<>>, hs, hi.lq, hi.qs)
    /\ job' = [job EXCEPT ![j].pc = "upload",
                          ![j].log_handler = (job[j].sid # NoSession)]
    /\ loop' = AfterStep(j)
    /\ UNCHANGED <<issued, conn, pt, ptOut>>

\* Lines 95-106: the background task starts.  ok: FileHandler() returned.
JobBegin(j, ok) ==
    /\ loop = NoJob
    /\ job[j].pc = "queued"
    /\ IF ok THEN JobEnterTry(j) ELSE JobInitRaises(j)

\* The tracker of job j and a step's effect on it.
Tracker(j) == progress_trackers[job[j].sid]

SetTracker(j, t) ==
    progress_trackers' =
        IF HasTracker(j) THEN [progress_trackers EXCEPT ![job[j].sid] = t]
        ELSE progress_trackers

\* Lines 108-134: save the upload, read its sheets, complete Upload.  Reading
\* the file (ExcelConverter) may raise.
JobUpload(j, ok) ==
    /\ Runs(j)
    /\ job[j].pc = "upload"
    /\ IF ok
       THEN /\ Log(j, <<Info("file_read")>>
                      \o IfTracker(j, <<Completed("upload",
                                          complete_stage_pct(Tracker(j), "upload"))>>),
                   handlers, log_queues, queues)
            /\ job' = [job EXCEPT ![j].pc = "prepare"]
       ELSE /\ Log(j, <<Info("file_saved")>>, handlers, log_queues, queues)
            /\ job' = [job EXCEPT ![j].pc = "except",
                                  ![j].err = [type |-> "Exception", chunk |-> 0]]
    /\ loop' = AfterStep(j)
    /\ UNCHANGED <<log_queues, handlers, progress_trackers, issued, conn, pt, ptOut>>

\* Lines 136-164: Preparation, then enter Transformation.
JobPrepare(j) ==
    /\ Runs(j)
    /\ job[j].pc = "prepare"
    /\ LET t1 == set_stage(Tracker(j), "preparation")
           t2 == set_stage(complete_stage(t1, "preparation"), "translation")
       IN  /\ SetTracker(j, t2)
           /\ Log(j, IfTracker(j,
                        <<Milestone("preparation", calculate_progress(t1)),
                          Completed("preparation", complete_stage_pct(t1, "preparation")),
                          Milestone("translation", calculate_progress(t2))>>),
                  handlers, log_queues, queues)
    /\ job' = [job EXCEPT ![j].pc = "sheet", ![j].k = 1]
    /\ loop' = AfterStep(j)
    /\ UNCHANGED <<log_queues, handlers, issued, conn, pt, ptOut>>


\* The rows of the sheet job j is translating.
SheetRows(j) == RowsOf(job[j].sheets[job[j].k])

\* Lines 174-175 and the loop header of 166: store the sheet's output, then
\* the next sheet or Stage 4.
SheetDone(jr, csv) ==
    [jr EXCEPT !.dict = Append(@, csv),
               !.pc = IF jr.k < Len(jr.sheets) THEN "sheet" ELSE "generate",
               !.k = IF jr.k < Len(jr.sheets) THEN jr.k + 1 ELSE jr.k,
               !.i = 0, !.acc = <<>>]

\* Lines 166-168 and translate_csv 96-111, _translate_in_chunks 241-248:
\* parse the sheet and choose between one call and chunks.
JobSheet(j, parsed) ==
    /\ Runs(j)
    /\ job[j].pc = "sheet"
    /\ LET R == Len(SheetRows(j))
           total_chunks == TotalChunks(R, CHUNK_SIZE)
       IN  IF ~parsed
           THEN /\ Log(j, <<Info("sheet_start"), Err("csv_parse_failed", 0, 0)>>,
                       handlers, log_queues, queues)
                /\ job' = [job EXCEPT ![j].pc = "except",
                                      ![j].err = [type |-> "GPTAPIError", chunk |-> 0]]
                /\ UNCHANGED progress_trackers
           ELSE IF R > CHUNK_SIZE
           THEN /\ Log(j, <<Info("sheet_start"), ChunkInfo("splitting", 0, total_chunks)>>
                          \o IfTracker(j, <<ChunkInfo("chunks_total", 0, total_chunks)>>),
                       handlers, log_queues, queues)
                /\ SetTracker(j, set_translation_chunks(Tracker(j), total_chunks))
                /\ job' = [job EXCEPT ![j].pc = "chunk", ![j].i = 0, ![j].acc = <<>>]
           ELSE /\ Log(j, <<Info("sheet_start")>>,
                       handlers, log_queues, queues)
                /\ job' = [job EXCEPT ![j].pc = "direct"]
                /\ UNCHANGED progress_trackers
    /\ loop' = AfterStep(j)
    /\ UNCHANGED <<log_queues, handlers, issued, conn, pt, ptOut>>

\* The records of one _translate_json_data call (lines 138-210) that returns
\* `reply` for `rows`: the request and the parsed reply, then the row count
\* check of lines 204-208.
ReplyLog(rows, reply) ==
    <<Info("request")>>
    \o (IF Len(reply) < Len(rows)
        THEN <<Warn("row_count_mismatch"), Warn("truncated")>>
        ELSE <<Info("row_count_validated")>>)

\* One transform call as the history keeps it.
Call(k, num, rows, outcome) ==
    [sheet |-> k, num |-> num, rows |-> rows, outcome |-> outcome,
     reply |-> IF outcome = "fail" THEN <<>> ELSE TransformReply(rows, outcome)]

\* translate_csv 113-115: a sheet of at most CHUNK_SIZE rows, one call.
JobDirect(j, outcome) ==
    /\ Runs(j)
    /\ job[j].pc = "direct"
    /\ outcome \in Outcomes(SheetRows(j))
    /\ LET rows == SheetRows(j)
           reply == TransformReply(rows, outcome)
           called == [job[j] EXCEPT !.calls = Append(@, Call(job[j].k, 0, rows, outcome))]
       IN  IF outcome = "fail"
           THEN /\ Log(j, <<Info("request")>>, handlers, log_queues, queues)
                /\ job' = [job EXCEPT ![j] =
                              [called EXCEPT !.pc = "except",
                                             !.err = [type |-> "GPTAPIError", chunk |-> 0]]]
           ELSE /\ Log(j, ReplyLog(rows, reply) \o <<Info("sheet_done")>>,
                       handlers, log_queues, queues)
                /\ job' = [job EXCEPT ![j] = SheetDone(called, json_to_csv(reply))]
    /\ loop' = AfterStep(j)
    /\ UNCHANGED <<log_queues, handlers, progress_trackers, issued, conn, pt, ptOut>>

\* (variant) a failed chunk is skipped and the loop goes on.
ChunkFailureSkipped(jr, chunk_num) ==
    [jr EXCEPT !.i = jr.i + CHUNK_SIZE,
               !.pc = IF jr.i + CHUNK_SIZE < jr.sheets[jr.k] THEN "chunk" ELSE "combine"]

\* The chunk failed: lines 267-269.
ChunkFailure(jr, chunk_num) ==
    [jr EXCEPT !.pc = "except", !.err = [type |-> "GPTAPIError", chunk |-> chunk_num]]

\* (variant) range(0, len(json_data) + 1, chunk_size): one iteration more
\* when the row count is a multiple of the chunk size.
ChunkSuccessOneMore(jr, reply) ==
    [jr EXCEPT !.acc = @ \o reply,
               !.i = jr.i + CHUNK_SIZE,
               !.pc = IF jr.i + CHUNK_SIZE <= jr.sheets[jr.k] THEN "chunk" ELSE "combine"]

\* (variant) a reply with fewer rows than the chunk is a failure of the chunk.
ChunkSuccessStrict(jr, reply) ==
    IF Len(reply) < Len(Slice(RowsOf(jr.sheets[jr.k]), jr.i, CHUNK_SIZE))
    THEN [jr EXCEPT !.pc = "except",
                    !.err = [type |-> "GPTAPIError", chunk |-> ChunkNum(jr.i, CHUNK_SIZE)]]
    ELSE [jr EXCEPT !.acc = @ \o reply,
                    !.i = jr.i + CHUNK_SIZE,
                    !.pc = IF jr.i + CHUNK_SIZE < jr.sheets[jr.k] THEN "chunk"
                           ELSE "combine"]

\* The chunk succeeded: line 259 and the loop header of 250.
ChunkSuccess(jr, reply) ==
    [jr EXCEPT !.acc = @ \o reply,
               !.i = jr.i + CHUNK_SIZE,
               !.pc = IF jr.i + CHUNK_SIZE < jr.sheets[jr.k] THEN "chunk" ELSE "combine"]

\* _translate_in_chunks 250-269: one iteration of the chunk loop.
JobChunk(j, outcome) ==
    /\ Runs(j)
    /\ job[j].pc = "chunk"
    /\ LET chunk == Slice(SheetRows(j), job[j].i, CHUNK_SIZE)
           chunk_num == ChunkNum(job[j].i, CHUNK_SIZE)
           total_chunks == TotalChunks(Len(SheetRows(j)), CHUNK_SIZE)
           reply == TransformReply(chunk, outcome)
           called == [job[j] EXCEPT
                         !.calls = Append(@, Call(job[j].k, chunk_num, chunk, outcome))]
           t == increment_chunk(Tracker(j), chunk_num, total_chunks)
       IN  /\ outcome \in Outcomes(chunk)
           /\ IF outcome = "fail"
              THEN /\ Log(j, <<ChunkInfo("chunk_start", chunk_num, total_chunks),
                               Err("chunk_failed", chunk_num, total_chunks)>>,
                          handlers, log_queues, queues)
                   /\ job' = [job EXCEPT ![j] = ChunkFailure(called, chunk_num)]
                   /\ UNCHANGED progress_trackers
              ELSE /\ Log(j, <<ChunkInfo("chunk_start", chunk_num, total_chunks)>>
                             \o ReplyLog(chunk, reply)
                             \o <<ChunkInfo("chunk_done", chunk_num, total_chunks)>>
                             \o IfTracker(j, <<Progress(t.current_stage,
                                                        calculate_progress(t),
                                                        chunk_num, total_chunks)>>),
                          handlers, log_queues, queues)
                   /\ job' = [job EXCEPT ![j] = ChunkSuccess(called, reply)]
                   /\ SetTracker(j, t)
    /\ loop' = AfterStep(j)
    /\ UNCHANGED <<log_queues, handlers, issued, conn, pt, ptOut>>

\* _translate_in_chunks 271-277: combine the chunks' rows into the sheet's output.
JobCombine(j) ==
    /\ Runs(j)
    /\ job[j].pc = "combine"
    /\ Log(j, <<Info("sheet_done")>>, handlers, log_queues, queues)
    /\ job' = [job EXCEPT ![j] = SheetDone(job[j], json_to_csv(job[j].acc))]
    /\ loop' = AfterStep(j)
    /\ UNCHANGED <<log_queues, handlers, progress_trackers, issued, conn, pt, ptOut>>

\* Lines 177-194: complete Transformation, OutputGeneration.  Writing the
\* workbook (ExcelConverter.csv_to_excel) may raise.
JobGenerate(j, ok) ==
    /\ Runs(j)
    /\ job[j].pc = "generate"
    /\ LET t == set_stage(complete_stage(Tracker(j), "translation"), "excel_generation")
           before == <<Info("all_translated")>>
                     \o IfTracker(j, <<Completed("translation",
                                         complete_stage_pct(Tracker(j), "translation")),
                                       Milestone("excel_generation", calculate_progress(t))>>)
       IN  /\ SetTracker(j, t)
           /\ IF ok
              THEN /\ Log(j, before \o <<Info("output_created")>>
                             \o IfTracker(j, <<Completed("excel_generation",
                                                 complete_stage_pct(t, "excel_generation"))>>),
                          handlers, log_queues, queues)
                   /\ job' = [job EXCEPT ![j].pc = "complete"]
              ELSE /\ Log(j, before, handlers, log_queues, queues)
                   /\ job' = [job EXCEPT ![j].pc = "except",
                                         ![j].err = [type |-> "Exception", chunk |-> 0]]
    /\ loop' = AfterStep(j)
    /\ UNCHANGED <<log_queues, handlers, issued, conn, pt, ptOut>>

\* (variant) Stage 5 logs the completion marker and sets no stage.
JobCompleteMarkerOnly(j) ==
    /\ Runs(j)
    /\ job[j].pc = "complete"
    /\ Log(j, IfTracker(j, <<Info("download_ready")>>), handlers, log_queues, queues)
    /\ job' = [job EXCEPT ![j].pc = "finally", ![j].result = "success"]
    /\ loop' = AfterStep(j)
    /\ UNCHANGED <<log_queues, handlers, progress_trackers, issued, conn, pt, ptOut>>

\* Lines 196-202: Stage 5 and the completion marker.
JobComplete(j) ==
    /\ Runs(j)
    /\ job[j].pc = "complete"
    /\ LET t == set_stage(Tracker(j), "complete")
       IN  /\ SetTracker(j, t)
           /\ Log(j, IfTracker(j,
                        <<Milestone("complete", calculate_progress(t)),
                          Completed("complete", complete_stage_pct(t, "complete")),
                          Info("download_ready"),
                          Completed("complete", complete_stage_pct(t, "complete"))>>),
                  handlers, log_queues, queues)
    /\ job' = [job EXCEPT ![j].pc = "finally", ![j].result = "success"]
    /\ loop' = AfterStep(j)
    /\ UNCHANGED <<log_queues, handlers, issued, conn, pt, ptOut>>

\* (variant) the except clause logs the error and the job goes on to Stage 4.
JobExceptResume(j) ==
    /\ Runs(j)
    /\ job[j].pc = "except"
    /\ Log(j, <<Err("task_failed", job[j].err.chunk, 0)>>, handlers, log_queues, queues)
    /\ job' = [job EXCEPT ![j].pc = "generate"]
    /\ loop' = AfterStep(j)
    /\ UNCHANGED <<log_queues, handlers, progress_trackers, issued, conn, pt, ptOut>>

\* Lines 204-212: `except TranslationError` (GPTAPIError is one) and
\* `except Exception`.
JobExcept(j) ==
    /\ Runs(j)
    /\ job[j].pc = "except"
    /\ LET t == set_stage(Tracker(j), "complete")
       IN  /\ SetTracker(j, t)
           /\ Log(j, <<IF job[j].err.type = "GPTAPIError"
                       THEN Err("task_failed", job[j].err.chunk, 0)
                       ELSE Err("unexpected_error", 0, 0)>>
                     \o IfTracker(j, <<MilestoneError("complete", calculate_progress(t))>>),
                  handlers, log_queues, queues)
    /\ job' = [job EXCEPT ![j].pc = "finally", ![j].result = "failure"]
    /\ loop' = AfterStep(j)
    /\ UNCHANGED <<log_queues, handlers, issued, conn, pt, ptOut>>

\* (variant) a removal that leaves the handler attached.
remove_session_handler_none(hs, j) == hs

\* log_handler.py 67-69: logging.getLogger().removeHandler(handler).
remove_session_handler(hs, j) == {h \in hs : h.h # j}

\* (variant) the handler removed at the end of the try block instead of in
\* the finally block: a failed job keeps it attached.
JobFinallyDetachOnSuccess(j, ok) ==
    /\ Runs(j)
    /\ job[j].pc = "finally"
    /\ handlers' = IF job[j].log_handler /\ job[j].result = "success"
                   THEN remove_session_handler(handlers, j) ELSE handlers
    /\ progress_trackers' =
          IF job[j].sid # NoSession
          THEN cleanup_progress_tracker(progress_trackers, job[j].sid)
          ELSE progress_trackers
    /\ job' = [job EXCEPT ![j].pc = "done", ![j].raised = ~ok]
    /\ loop' = NoJob
    /\ UNCHANGED <<log_queues, queues, issued, conn, clock, emitted, enqBy, pt, ptOut>>

\* (variant) the tracker removed at the end of the try block instead of in
\* the finally block: a failed job leaves it registered.
JobFinallyTrackerOnSuccess(j, ok) ==
    /\ Runs(j)
    /\ job[j].pc = "finally"
    /\ handlers' = IF job[j].log_handler THEN remove_session_handler(handlers, j)
                   ELSE handlers
    /\ progress_trackers' =
          IF job[j].sid # NoSession /\ job[j].result = "success"
          THEN cleanup_progress_tracker(progress_trackers, job[j].sid)
          ELSE progress_trackers
    /\ job' = [job EXCEPT ![j].pc = "done", ![j].raised = ~ok]
    /\ loop' = NoJob
    /\ UNCHANGED <<log_queues, queues, issued, conn, clock, emitted, enqBy, pt, ptOut>>

\* Lines 214-225: the finally block.  ok: cleanup_file returned; when it
\* raises, the exception leaves the coroutine after the handler and the
\* tracker were removed.
JobFinally(j, ok) ==
    /\ Runs(j)
    /\ job[j].pc = "finally"
    /\ handlers' = IF job[j].log_handler THEN remove_session_handler(handlers, j)
                   ELSE handlers
    /\ progress_trackers' =
          IF job[j].sid # NoSession
          THEN cleanup_progress_tracker(progress_trackers, job[j].sid)
          ELSE progress_trackers
    /\ job' = [job EXCEPT ![j].pc = "done", ![j].raised = ~ok]
    /\ loop' = NoJob
    /\ UNCHANGED <<log_queues, queues, issued, conn, clock, emitted, enqBy, pt, ptOut>>


(***************************************************************************)
(* routes.py: stream_logs.event_generator                                  *)
(***************************************************************************)

IdleConn ==
    [pc |-> "idle", sid |-> NoSession, log_queue |-> NoQueue, disconnected |-> FALSE,
     frames |-> <<>>, cleanups |-> 0, exit |-> "none", late |-> 0]

\* The positions at which the generator is suspended inside its try block.
InLoop == {"top", "yield_data", "yield_keepalive", "sleep"}

\* Lines 282-288: the frame made from a queue entry.
DataFrame(log_entry) ==
    [type |-> "data", level |-> log_entry.level, message |-> log_entry.message,
     timestamp |-> log_entry.timestamp]

ErrorFrame == [type |-> "error", level |-> "", message |-> "Invalid session ID",
               timestamp |-> 0]

\* (variant) the cleanup after the loop instead of in a finally block: it
\* runs after `break` only.
StreamCleanupAfterLoop(c, why) ==
    /\ log_queues' = IF why = "disconnect" THEN cleanup_session(log_queues, conn[c].sid)
                     ELSE log_queues
    /\ conn' = [conn EXCEPT ![c].pc = "done", ![c].exit = why,
                            ![c].cleanups = IF why = "disconnect" THEN @ + 1 ELSE @]

\* Lines 297-299: the finally block of the generator.
StreamFinally(c, why) ==
    /\ log_queues' = cleanup_session(log_queues, conn[c].sid)
    /\ conn' = [conn EXCEPT ![c].pc = "done", ![c].exit = why,
                            ![c].cleanups = @ + 1]

\* (variant) the `return` after the error frame is missing: the generator
\* goes on into the loop.
StreamOpenNoReturn(c, sid) ==
    /\ loop = NoJob
    /\ conn[c].pc = "idle"
    /\ LET log_queue == get_log_queue(log_queues, sid)
       IN  conn' = [conn EXCEPT ![c] =
                      [IdleConn EXCEPT !.pc = "top", !.sid = sid, !.log_queue = log_queue,
                                       !.frames = IF log_queue = NoQueue
                                                  THEN <<ErrorFrame>> ELSE <<>>]]
    /\ UNCHANGED <<log_queues, queues, handlers, progress_trackers, issued, loop, job,
                   clock, emitted, enqBy, pt, ptOut>>

\* Lines 265-271: resolve the queue; without one, a single error frame.
StreamOpen(c, sid) ==
    /\ loop = NoJob
    /\ conn[c].pc = "idle"
    /\ LET log_queue == get_log_queue(log_queues, sid)
       IN  conn' = [conn EXCEPT ![c] =
                      IF log_queue = NoQueue
                      THEN [IdleConn EXCEPT !.pc = "done", !.sid = sid,
                                            !.frames = <<ErrorFrame>>,
                                            !.exit = "invalid"]
                      ELSE [IdleConn EXCEPT !.pc = "top", !.sid = sid,
                                            !.log_queue = log_queue]]
    /\ UNCHANGED <<log_queues, queues, handlers, progress_trackers, issued, loop, job,
                   clock, emitted, enqBy, pt, ptOut>>

\* One iteration of lines 274-292 from the position after the disconnect
\* check: get(timeout=1) and the yield of a data frame or of a keepalive.
\* closes: the client closes the connection while get waits; late counts the
\* dequeue attempts that were made or still going on after the client closed.
Dequeue(c, closes) ==
    LET q == conn[c].log_queue
        gone == conn[c].disconnected \/ closes
        cr == [conn[c] EXCEPT !.disconnected = gone,
                              !.late = IF gone THEN @ + 1 ELSE @]
    IN  IF queues[q] # <<>>
        THEN /\ queues' = [queues EXCEPT ![q] = Tail(@)]
             /\ conn' = [conn EXCEPT ![c] =
                           [cr EXCEPT !.pc = "yield_data",
                                      !.frames = Append(@, DataFrame(Head(queues[q])))]]
             /\ UNCHANGED log_queues
        ELSE /\ conn' = [conn EXCEPT ![c] = [cr EXCEPT !.pc = "yield_keepalive"]]
             /\ UNCHANGED <<queues, log_queues>>

\* (variant) the disconnect check made only when the queue is empty: while
\* there are entries the loop goes on dequeuing.
StreamPollCheckWhenEmpty(c) ==
    /\ loop = NoJob
    /\ conn[c].pc = "top"
    /\ IF conn[c].disconnected /\ queues[conn[c].log_queue] = <<>>
       THEN /\ StreamFinally(c, "disconnect")
            /\ UNCHANGED queues
       ELSE \E closes \in BOOLEAN : Dequeue(c, closes)
    /\ UNCHANGED <<handlers, progress_trackers, issued, loop, job, clock, emitted,
                   enqBy, pt, ptOut>>

\* Lines 272-292: is_disconnected returns; break, or one dequeue attempt.
StreamPoll(c) ==
    /\ loop = NoJob
    /\ conn[c].pc = "top"
    /\ IF conn[c].disconnected
       THEN /\ StreamFinally(c, "disconnect")
            /\ UNCHANGED queues
       ELSE \E closes \in BOOLEAN : Dequeue(c, closes)
    /\ UNCHANGED <<handlers, progress_trackers, issued, loop, job, clock, emitted,
                   enqBy, pt, ptOut>>

\* (variant) the wait after a keepalive takes the entry that arrived
\* meanwhile and discards it.
StreamResumeDiscard(c) ==
    /\ loop = NoJob
    /\ conn[c].pc \in {"yield_data", "yield_keepalive", "sleep"}
    /\ conn' = [conn EXCEPT ![c].pc =
                   IF conn[c].pc = "yield_keepalive" THEN "sleep" ELSE "top"]
    /\ queues' = IF conn[c].pc = "sleep" /\ queues[conn[c].log_queue] # <<>>
                 THEN [queues EXCEPT ![conn[c].log_queue] = Tail(@)] ELSE queues
    /\ UNCHANGED <<log_queues, handlers, progress_trackers, issued, loop, job,
                   clock, emitted, enqBy, pt, ptOut>>

\* The consumer asks for the next frame (after a data frame: back to the top
\* of the loop; after a keepalive: asyncio.sleep(1)), or the sleep ends.
StreamResume(c) ==
    /\ loop = NoJob
    /\ conn[c].pc \in {"yield_data", "yield_keepalive", "sleep"}
    /\ conn' = [conn EXCEPT ![c].pc =
                   IF conn[c].pc = "yield_keepalive" THEN "sleep" ELSE "top"]
    /\ UNCHANGED <<log_queues, queues, handlers, progress_trackers, issued, loop, job,
                   clock, emitted, enqBy, pt, ptOut>>

\* Lines 295-299: the generator is cancelled or closed where it is suspended.
StreamCancel(c) ==
    /\ loop = NoJob
    /\ conn[c].pc \in InLoop
    /\ StreamFinally(c, "cancelled")
    /\ UNCHANGED <<queues, handlers, progress_trackers, issued, loop, job, clock,
                   emitted, enqBy, pt, ptOut>>

\* An await of the loop body raises something other than CancelledError:
\* only the finally block runs, and the exception leaves the generator.
StreamRaise(c) ==
    /\ loop = NoJob
    /\ conn[c].pc \in {"top", "sleep"}
    /\ StreamFinally(c, "exception")
    /\ UNCHANGED <<queues, handlers, progress_trackers, issued, loop, job, clock,
                   emitted, enqBy, pt, ptOut>>

\* The client closes the connection: request.is_disconnected() turns true.
\* Only StreamPoll reads it, and never while a job holds the loop, so a
\* disconnect during a job is taken when the job has ended.
ClientDisconnect(c) ==
    /\ loop = NoJob
    /\ conn[c].pc \in InLoop
    /\ ~conn[c].disconnected
    /\ conn' = [conn EXCEPT ![c].disconnected = TRUE]
    /\ UNCHANGED <<log_queues, queues, handlers, progress_trackers, issued, loop, job,
                   clock, emitted, enqBy, pt, ptOut>>

(***************************************************************************)
(* The system                                                              *)
(***************************************************************************)

\* The dicts the tracker's methods return, and no call made yet.
Returned(type, stage, percentage, current, total, completed) ==
    [type |-> type, stage |-> stage, percentage |-> percentage,
     current |-> current, total |-> total, completed |-> completed]

NoReturn == Returned("none", "", 0, 0, 0, FALSE)

\* The sheets of an upload, as their row counts.
Workloads(counts, rows) == UNION {[1..n -> rows] : n \in counts}

Init ==
    /\ log_queues = [s \in Sessions |-> NoQueue]
    /\ queues = <<>>
    /\ handlers = {}
    /\ progress_trackers = [s \in Sessions |-> NoTracker]
    /\ issued = {}
    /\ loop = NoJob
    /\ job = [j \in Jobs |-> IdleJob]
    /\ conn = [c \in Conns |-> IdleConn]
    /\ clock = 0
    /\ emitted = [j \in Jobs |-> <<>>]
    /\ enqBy = [j \in Jobs |-> 0]
    /\ pt = NewTracker
    /\ ptOut = NoReturn

\* The steps of job j after its start, with the faults of F: those every
\* job takes, and those of a sheet of more than CHUNK_SIZE rows.
JobCoreStep(j, F) ==
    \/ \E ok \in Flag(F, "init") : JobBegin(j, ok)
    \/ \E ok \in Flag(F, "upload") : JobUpload(j, ok)
    \/ JobPrepare(j)
    \/ \E parsed \in Flag(F, "parse") : JobSheet(j, parsed)
    \/ \E outcome \in {"ok"} \cup (F \cap {"short", "fail"}) : JobDirect(j, outcome)
    \/ \E ok \in Flag(F, "generate") : JobGenerate(j, ok)
    \/ JobComplete(j)
    \/ JobExcept(j)
    \/ \E ok \in Flag(F, "cleanup") : JobFinally(j, ok)

JobChunkStep(j, F) ==
    \/ \E outcome \in {"ok"} \cup (F \cap {"short", "fail"}) : JobChunk(j, outcome)
    \/ JobCombine(j)

JobStep(j, F) == JobCoreStep(j, F) \/ JobChunkStep(j, F)

StreamStep(c) ==
    \/ \E sid \in Sessions : StreamOpen(c, sid)
    \/ StreamPoll(c)
    \/ StreamResume(c)
    \/ StreamCancel(c)
    \/ StreamRaise(c)
    \/ ClientDisconnect(c)

\* One job and one stream, over both kinds of sheet and every fault.
SysWorkloads == {<<SmallRows>>, <<CHUNK_SIZE + SmallRows>>}

Next ==
    \/ \E s \in Sessions : CreateSession(s)
    \/ \E sid \in Sessions \cup {NoSession}, w \in SysWorkloads :
          TranslateFile("j1", TRUE, ".xlsx", sid, w)
    \/ JobStep("j1", AllFaults)
    \/ StreamStep("c1")

Spec == Init /\ [][Next]_vars

\* One job alone, over every workload within the bounds.
JobWorkloads == Workloads({1, 2}, 0..MaxRows)

NextJob ==
    \/ \E sid \in Sessions \cup {NoSession}, w \in JobWorkloads :
          TranslateFile("j1", TRUE, ".xlsx", sid, w)
    \/ JobStep("j1", AllFaults)

SpecJob == Init /\ [][NextJob]_vars

\* One job alone, with the faults inside and outside the try block.
EveryFault == AllFaults \cup OutsideFaults

NextFaults ==
    \/ \E s \in Sessions : CreateSession(s)
    \/ \E sid \in Sessions \cup {NoSession}, w \in SysWorkloads :
          TranslateFile("j1", TRUE, ".xlsx", sid, w)
    \/ JobStep("j1", EveryFault)

SpecFaults == Init /\ [][NextFaults]_vars

\* Job start requests of every shape: with and without a key, with each
\* extension, with and without a session id.  A started job is one small
\* sheet (lines 123-127 read every upload that is not .xlsx as one CSV sheet)
\* and may fail while the upload is read.  The job ids are interchangeable,
\* so j1 is the one requested first.
RequestFaults == {"upload"}

Request(j) ==
    \E has_key \in BOOLEAN, ext \in Extensions, sid \in Sessions \cup {NoSession} :
       TranslateFile(j, has_key, ext, sid, <<SmallRows>>)

NextRequests ==
    \/ \E s \in Sessions : CreateSession(s)
    \/ Request("j1")
    \/ job["j1"].pc # "idle" /\ Request("j2")
    \/ \E j \in Jobs : JobCoreStep(j, RequestFaults)

SpecRequests == Init /\ [][NextRequests]_vars

\* Two jobs and one stream, over small sheets; a job fails by a transform
\* error or by an exception while the upload is read.  The job ids are
\* interchangeable, so j1 is the one that starts first.
JobsFaults == {"upload", "fail"}

NextJobs ==
    \/ \E s \in Sessions : CreateSession(s)
    \/ \E sid \in Sessions : TranslateFile("j1", TRUE, ".xlsx", sid, <<SmallRows>>)
    \/ \E sid \in Sessions :
          job["j1"].pc # "idle" /\ TranslateFile("j2", TRUE, ".xlsx", sid, <<SmallRows>>)
    \/ \E j \in Jobs : JobCoreStep(j, JobsFaults)
    \/ StreamStep("c1")

SpecJobs == Init /\ [][NextJobs]_vars

(***************************************************************************)
(* A ProgressTracker called through its methods in any order               *)
(***************************************************************************)

PtSetStage(stage) ==
    /\ pt' = set_stage(pt, stage)
    /\ ptOut' = Returned("milestone", stage, set_stage_pct(pt, stage), 0, 0, FALSE)
    /\ UNCHANGED sysvars

PtCompleteStage(stage) ==
    /\ pt' = complete_stage(pt, stage)
    /\ ptOut' = Returned("milestone", stage, complete_stage_pct(pt, stage), 0, 0, TRUE)
    /\ UNCHANGED sysvars

PtSetChunks(total) ==
    /\ pt' = set_translation_chunks(pt, total)
    /\ ptOut' = NoReturn
    /\ UNCHANGED sysvars

PtIncrementChunk(current, total) ==
    /\ pt' = increment_chunk(pt, current, total)
    /\ ptOut' = Returned("progress", pt.current_stage,
                         increment_chunk_pct(pt, current, total), current, total, FALSE)
    /\ UNCHANGED sysvars

NextTracker ==
    \/ \E stage \in Stages : PtSetStage(stage)
    \/ \E stage \in Stages : PtCompleteStage(stage)
    \/ \E total \in 0..MaxChunks : PtSetChunks(total)
    \/ \E current \in 0..MaxChunks, total \in 0..MaxChunks : PtIncrementChunk(current, total)

SpecTracker == Init /\ [][NextTracker]_vars

(***************************************************************************)
(* Fair scheduling: the event loop resumes every coroutine that is ready,  *)
(* and the consumer of the stream keeps asking for frames.  Nothing makes  *)
(* the client disconnect, a cancellation arrive or an await raise.         *)
(***************************************************************************)
\* One job over a small sheet, ending by success or by a transform error,
\* and one stream.
LiveFaults == {"fail"}

NextLive ==
    \/ \E s \in Sessions : CreateSession(s)
    \/ \E sid \in Sessions \cup {NoSession} :
          TranslateFile("j1", TRUE, ".xlsx", sid, <<SmallRows>>)
    \/ JobCoreStep("j1", LiveFaults)
    \/ StreamStep("c1")

FairSpec ==
    /\ Init /\ [][NextLive]_vars
    /\ WF_vars(JobCoreStep("j1", LiveFaults))
    /\ WF_vars(StreamPoll("c1"))
    /\ WF_vars(StreamResume("c1"))

\* Two streams and one job, which ends early because reading the upload
\* raises.  The connection ids are interchangeable, so c1 is the one that
\* opens first.
NextStreams ==
    \/ \E s \in Sessions : CreateSession(s)
    \/ \E sid \in Sessions : TranslateFile("j1", TRUE, ".xlsx", sid, <<SmallRows>>)
    \/ JobBegin("j1", TRUE)
    \/ JobUpload("j1", FALSE)
    \/ JobExcept("j1")
    \/ JobFinally("j1", TRUE)
    \/ StreamStep("c1")
    \/ conn["c1"].pc # "idle" /\ StreamStep("c2")

SpecStreams == Init /\ [][NextStreams]_vars

-----------------------------------------------------------------------------
\* Properties.

IsPrefix(a, b) == Len(a) <= Len(b) /\ \A n \in 1..Len(a) : a[n] = b[n]

IsData(f) == f.type = "data"

\* The data frames a connection has yielded, in order.
DataFrames(c) == SelectSeq(conn[c].frames, IsData)

\* The session of the job that logged a queue entry or a data frame.
SessionOf(e) == job[e.message.src].sid

\* C1 -- session isolation: every entry of the queue registered for a session
\* was logged by a job of that session, and every data frame a stream has
\* yielded was logged by a job of the stream's session; a record logged during
\* another session's job is neither enqueued for this session nor delivered
\* to its stream.
C1_SessionIsolation ==
    /\ \A s \in Sessions :
          log_queues[s] # NoQueue =>
             \A n \in 1..Len(queues[log_queues[s]]) :
                SessionOf(queues[log_queues[s]][n]) = s
    /\ \A c \in Conns :
          \A n \in 1..Len(conn[c].frames) :
             IsData(conn[c].frames[n]) => SessionOf(conn[c].frames[n]) = conn[c].sid

\* Session A is live (its queue is registered and non-empty, its stream is in
\* the drain loop and has delivered frames of A's job) while B's job runs with
\* its handler attached and has logged.
C1_Witness ==
    /\ job["j1"].sid \in Sessions /\ job["j2"].sid \in Sessions
    /\ job["j1"].sid # job["j2"].sid
    /\ loop = "j2" /\ job["j2"].log_handler /\ Len(emitted["j2"]) > 0
    /\ conn["c1"].sid = job["j1"].sid /\ conn["c1"].pc \in InLoop
    /\ Len(DataFrames("c1")) > 0
    /\ log_queues[job["j1"].sid] # NoQueue
    /\ queues[log_queues[job["j1"].sid]] # <<>>

\* The frames a stream on the job's session would yield for everything the
\* job has logged through its handler.
SentFrames(j) == [n \in 1..Len(emitted[j]) |-> DataFrame(Entry(emitted[j][n]))]

\* C2 -- FIFO delivery: with one job producing and one stream consuming on the
\* same session, the data frames the stream has yielded are a prefix of the
\* events the job emitted, in emission order (no reordering, duplication or
\* gap); a stream on another session has yielded none of them.
C2_FifoDelivery ==
    IF conn["c1"].sid = job["j1"].sid
    THEN IsPrefix(DataFrames("c1"), SentFrames("j1"))
    ELSE DataFrames("c1") = <<>>

\* The stream has yielded three or more events of the job and more wait.
C2_Witness ==
    /\ conn["c1"].sid = job["j1"].sid
    /\ Len(DataFrames("c1")) >= 3
    /\ Len(DataFrames("c1")) < Len(emitted["j1"])

\* C3 -- guaranteed release: a connection that is inside the drain loop has
\* not yet invoked cleanup_session; once it has left the loop, by disconnect,
\* cancellation or exception, it has invoked it exactly once; and the step
\* that leaves the loop removes the registry entry of the connection's own
\* session.
C3_CleanupOnce ==
    \A c \in Conns :
       /\ conn[c].pc \in InLoop => conn[c].cleanups = 0
       /\ (conn[c].pc = "done" /\ conn[c].exit # "invalid") => conn[c].cleanups = 1
       /\ (conn[c].pc = "done" /\ conn[c].exit = "invalid") => conn[c].cleanups = 0

C3_CleanupOwnSession ==
    [][\A c \in Conns :
          (conn[c].pc \in InLoop /\ conn'[c].pc = "done") =>
             /\ log_queues'[conn[c].sid] = NoQueue
             /\ conn'[c].cleanups = conn[c].cleanups + 1
             /\ conn'[c].exit \in {"disconnect", "cancelled", "exception"}]_vars

C3_GuaranteedRelease == []C3_CleanupOnce /\ C3_CleanupOwnSession

\* A stream that delivered frames and left the loop by an exception.
C3_Witness ==
    /\ conn["c1"].pc = "done" /\ conn["c1"].exit = "exception"
    /\ conn["c1"].cleanups = 1
    /\ Len(DataFrames("c1")) > 0

\* The terminal events of a job: the completion marker (line 201) and the
\* error records of the two except clauses (lines 205, 210).
TerminalKinds == {"download_ready", "task_failed", "unexpected_error"}

IsTerminal(f) == IsData(f) /\ f.message.text.kind \in TerminalKinds

TerminalDelivered(c) == \E n \in 1..Len(conn[c].frames) : IsTerminal(conn[c].frames[n])

\* C4 -- stream termination on job end: once the job's terminal event has been
\* delivered to the stream, the stream loop exits and cleanup_session removes
\* the registry entry of the session, even if the client never disconnects.
C4_StreamEndsOnJobEnd ==
    TerminalDelivered("c1") ~> (conn["c1"].pc = "done" /\ conn["c1"].cleanups = 1)

C5_Detached ==
    \A j \in Jobs :
       job[j].pc = "done" => \A h \in handlers : h.h # j

C5_NoEnqueueAfterEnd ==
    [][\A j \in Jobs :
          job[j].pc = "done" => /\ enqBy'[j] = enqBy[j]
                                /\ \A h \in handlers' : h.h # j]_vars

\* C5 -- handler detach on every exit path: when a job has ended, by success,
\* by a TranslationError or by any other exception, its handler is no longer
\* attached to the root logger, and from then on no record is enqueued
\* through that handler.
C5_HandlerDetach == []C5_Detached /\ C5_NoEnqueueAfterEnd

\* A job with a session ended by an exception that is not a TranslationError,
\* and a later job on the same session has logged.
C5_Witness ==
    /\ job["j1"].pc = "done" /\ job["j1"].sid \in Sessions
    /\ job["j1"].result = "failure" /\ job["j1"].err.type = "Exception"
    /\ enqBy["j1"] > 0
    /\ job["j2"].sid = job["j1"].sid
    /\ Len(emitted["j2"]) > 0

\* The transform calls made for sheet k, in call order.
IsCallOf(k, c) == c.sheet = k

CallsOf(j, k) == SelectSeq(job[j].calls, LAMBDA c : IsCallOf(k, c))

\* C6 -- chunk failure aborts the job: when the transform call for chunk k of
\* a chunked sheet fails, it is the last transform call of the job (no call
\* for a later chunk, no second call for chunk k), the sheet gets no output,
\* the job does not succeed, and the error that propagates carries the
\* 1-based number k.
C6_ChunkFailureAborts ==
    LET jr == job["j1"]
    IN  \A n \in 1..Len(jr.calls) :
           (jr.calls[n].num > 0 /\ jr.calls[n].outcome = "fail") =>
              /\ n = Len(jr.calls)
              /\ \A m \in 1..Len(jr.calls) :
                    m # n => ~(/\ jr.calls[m].sheet = jr.calls[n].sheet
                               /\ jr.calls[m].num >= jr.calls[n].num)
              /\ jr.calls[n].num = (jr.i \div CHUNK_SIZE) + 1
              /\ jr.err = [type |-> "GPTAPIError", chunk |-> jr.calls[n].num]
              /\ Len(jr.dict) = jr.calls[n].sheet - 1
              /\ jr.pc \in {"except", "finally", "done"}
              /\ jr.result # "success"

\* Chunk 2 of 3 failed and the job has ended.
C6_Witness ==
    LET jr == job["j1"]
    IN  /\ jr.pc = "done"
        /\ Len(jr.calls) = 2
        /\ jr.calls[2].num = 2 /\ jr.calls[2].outcome = "fail"
        /\ jr.sheets[jr.calls[2].sheet] > 2 * CHUNK_SIZE

\* ceil(R / C), stated without division.
CeilDiv(R, C) == CHOOSE n \in 0..R : n * C >= R /\ (n = 0 \/ (n - 1) * C < R)

ExpectedCalls(R) == IF R > CHUNK_SIZE THEN CeilDiv(R, CHUNK_SIZE) ELSE 1

\* C7 -- transform invocation count: for every sheet translate_csv has
\* returned for (R rows, no failed call), the number of transform calls made
\* for it is ceil(R / 5) when R > 5 and 1 when R <= 5.
C7_InvocationCount ==
    \A k \in 1..Len(job["j1"].dict) :
       Len(CallsOf("j1", k)) = ExpectedCalls(job["j1"].sheets[k])

\* A sheet of exactly CHUNK_SIZE rows and a sheet of two full chunks and a
\* shorter one, both translated.
C7_Witness ==
    /\ Len(job["j1"].dict) = 2
    /\ job["j1"].sheets[1] = CHUNK_SIZE
    /\ job["j1"].sheets[2] > 2 * CHUNK_SIZE
    /\ Len(CallsOf("j1", 1)) = 1
    /\ Len(CallsOf("j1", 2)) = 3

\* A sheet of no rows translated with one call.
C7_WitnessEmpty ==
    /\ Len(job["j1"].dict) = 1
    /\ job["j1"].sheets[1] = 0
    /\ Len(CallsOf("j1", 1)) = 1

RECURSIVE ConcatRows(_)
ConcatRows(cs) == IF cs = <<>> THEN <<>> ELSE Head(cs).rows \o ConcatRows(Tail(cs))

RECURSIVE ConcatReplies(_)
ConcatReplies(cs) == IF cs = <<>> THEN <<>> ELSE Head(cs).reply \o ConcatReplies(Tail(cs))

AllOk(cs) == \A n \in 1..Len(cs) : cs[n].outcome = "ok"

\* C8 -- chunk partition and row order: for a sheet of R > C rows the n-th
\* transform call receives the rows [(n-1)C, nC) of the sheet, in call order;
\* every chunk is non-empty and of at most C rows, only the last may be
\* shorter; the chunks of a translated sheet concatenate to its rows, its
\* output is the concatenation of the replies in chunk order, and when every
\* reply kept its rows the output rows are the input rows' translations in
\* input order.
C8_ChunkPartition ==
    LET jr == job["j1"]
    IN  /\ \A k \in 1..Len(jr.sheets) :
              LET cs == CallsOf("j1", k)
                  R == jr.sheets[k]
              IN  R > CHUNK_SIZE =>
                     \A n \in 1..Len(cs) :
                        LET lo == (n - 1) * CHUNK_SIZE
                            hi == IF lo + CHUNK_SIZE < R THEN lo + CHUNK_SIZE ELSE R
                        IN  /\ cs[n].num = n
                            /\ cs[n].rows = [m \in 1..(hi - lo) |-> lo + m]
                            /\ Len(cs[n].rows) \in 1..CHUNK_SIZE
                            /\ Len(cs[n].rows) < CHUNK_SIZE => hi = R
        /\ \A k \in 1..Len(jr.dict) :
              LET cs == CallsOf("j1", k)
              IN  jr.sheets[k] > CHUNK_SIZE =>
                     /\ ConcatRows(cs) = RowsOf(jr.sheets[k])
                     /\ jr.dict[k].lines = ConcatReplies(cs)
                     /\ AllOk(cs) => jr.dict[k].lines = Translated(RowsOf(jr.sheets[k]))

\* A sheet of two full chunks and a shorter last one, translated with every
\* reply complete.
C8_Witness ==
    LET jr == job["j1"]
    IN  /\ Len(jr.dict) >= 1
        /\ jr.sheets[1] > 2 * CHUNK_SIZE
        /\ jr.sheets[1] < 3 * CHUNK_SIZE
        /\ Len(CallsOf("j1", 1)) = 3
        /\ AllOk(CallsOf("j1", 1))

\* C9 -- stage monotonicity: under any sequence of tracker operations the
\* current stage of a tracker never moves to a stage earlier in the order
\* Upload < Preparation < Transformation < OutputGeneration < Complete; a
\* set_stage call that would move it backward does not regress it.
C9_StageNeverRegresses ==
    [][StageIndex(pt'.current_stage) >= StageIndex(pt.current_stage)]_vars

\* The part of C9 about run_translation_task_full alone: the tracker of a
\* running job's session only moves forward, on the success path and on both
\* error paths.
C9_JobStagesForward ==
    [][\A s \in Sessions :
          (progress_trackers[s] # NoTracker /\ progress_trackers'[s] # NoTracker) =>
             StageIndex(progress_trackers'[s].current_stage)
                >= StageIndex(progress_trackers[s].current_stage)]_vars

ExpectedWeights == <<10, 10, 60, 15, 5>>

ExpectedStarts == <<0, 10, 20, 80, 95>>

RECURSIVE SumSeq(_)
SumSeq(q) == IF q = <<>> THEN 0 ELSE Head(q) + SumSeq(Tail(q))

\* C10 -- stage weights: the weights of the five stages are 10/10/60/15/5 and
\* sum to 100; the start percentage of a stage is the sum of the weights of
\* the strictly earlier stages (0, 10, 20, 80, 95) and is non-decreasing along
\* the stage order; every start and every end percentage (start + own weight)
\* lies in 0..100; and the percentage reported for a completed stage is its
\* end percentage.
C10_StageWeights ==
    /\ [i \in 1..Len(StageOrder) |-> STAGE_WEIGHTS[StageOrder[i]]] = ExpectedWeights
    /\ SumSeq([i \in 1..Len(StageOrder) |-> STAGE_WEIGHTS[StageOrder[i]]]) = 100
    /\ \A i \in 1..Len(StageOrder) :
          /\ get_stage_start_percentage(StageOrder[i]) = ExpectedStarts[i]
          /\ get_stage_start_percentage(StageOrder[i])
                = SumSeq([m \in 1..(i - 1) |-> STAGE_WEIGHTS[StageOrder[m]]])
          /\ get_stage_start_percentage(StageOrder[i]) \in 0..100
          /\ get_stage_start_percentage(StageOrder[i])
                + STAGE_WEIGHTS[StageOrder[i]] \in 0..100
    /\ \A i \in 1..(Len(StageOrder) - 1) :
          get_stage_start_percentage(StageOrder[i])
             <= get_stage_start_percentage(StageOrder[i + 1])
    /\ ptOut.completed =>
          /\ ptOut.percentage = get_stage_start_percentage(ptOut.stage)
                                   + STAGE_WEIGHTS[ptOut.stage]
          /\ ptOut.percentage \in 0..100

\* complete_stage(COMPLETE) reported 100.
C10_Witness ==
    /\ ptOut.completed
    /\ ptOut.stage = "complete"
    /\ ptOut.percentage = 100


\* p is the integer part of 20 + current * 60 / total, stated by
\* multiplication.
IsChunkPercentage(p, current, total) ==
    /\ (p - 20) * total <= current * 60
    /\ (p - 20 + 1) * total > current * 60

\* C11 -- chunk progress percentage: while the current stage is Transformation
\* and total > 0, increment_chunk(current, total) reports 20 + the integer
\* part of current * 60 / total for every 0 <= current <= total; after chunk 2
\* of 3 it reports 60, and after the last chunk 80.
C11_ChunkPercentage ==
    (/\ ptOut.type = "progress"
     /\ ptOut.stage = "translation"
     /\ ptOut.total > 0
     /\ ptOut.current <= ptOut.total) =>
        /\ IsChunkPercentage(ptOut.percentage, ptOut.current, ptOut.total)
        /\ (ptOut.current = 2 /\ ptOut.total = 3) => ptOut.percentage = 60
        /\ ptOut.current = ptOut.total => ptOut.percentage = 80

\* increment_chunk(2, 3) during Transformation reported 60.
C11_Witness ==
    /\ ptOut.type = "progress" /\ ptOut.stage = "translation"
    /\ ptOut.current = 2 /\ ptOut.total = 3
    /\ ptOut.percentage = 60

\* A quotient that is not an integer: increment_chunk(3, 7) reported 45.
C11_WitnessTruncated ==
    /\ ptOut.type = "progress" /\ ptOut.stage = "translation"
    /\ ptOut.current = 3 /\ ptOut.total = 7
    /\ ptOut.percentage = 45

\* The same for the progress records a job logs for its chunks.
C11_JobProgress ==
    \A n \in 1..Len(emitted["j1"]) :
       LET msg == emitted["j1"][n].msg
       IN  msg.kind = "progress" =>
              /\ msg.stage = "translation"
              /\ IsChunkPercentage(msg.pct, msg.cur, msg.tot)

\* A sheet of 12 rows: the progress records read 40, 60, 80.
C11_JobWitness ==
    /\ job["j1"].sheets = <<12>>
    /\ \E a, b, c \in 1..Len(emitted["j1"]) :
          /\ a < b /\ b < c
          /\ emitted["j1"][a].msg.kind = "progress" /\ emitted["j1"][a].msg.pct = 40
          /\ emitted["j1"][b].msg.kind = "progress" /\ emitted["j1"][b].msg.pct = 60
          /\ emitted["j1"][c].msg.kind = "progress" /\ emitted["j1"][c].msg.pct = 80



\* C12 -- zero-chunk guard: an increment_chunk call whose total is 0 (after
\* set_translation_chunks(0) or after anything else) leaves total_chunks at 0,
\* divides by nothing and reports the start percentage of the tracker's
\* current stage, whatever `current` is.
C12_ZeroChunkGuard ==
    (ptOut.type = "progress" /\ ptOut.total = 0) =>
        /\ pt.total_chunks = 0
        /\ ptOut.stage = pt.current_stage
        /\ ptOut.percentage = ExpectedStarts[StageIndex(pt.current_stage)]

\* increment_chunk(2, 0) during Transformation reported 20.
C12_Witness ==
    /\ ptOut.type = "progress" /\ ptOut.total = 0 /\ ptOut.current = 2
    /\ pt.current_stage = "translation"
    /\ pt.total_chunks = 0 /\ pt.completed_chunks = 2
    /\ ptOut.percentage = 20



\* On every registry the program reaches: cleanup_session of an absent id
\* returns the registry as it is, a second cleanup_session of an id changes
\* nothing more than the first, and the entries of other ids are kept.
C13_Idempotent ==
    \A s \in Sessions :
       LET once == cleanup_session(log_queues, s)
       IN  /\ log_queues[s] = NoQueue => once = log_queues
           /\ once[s] = NoQueue
           /\ cleanup_session(once, s) = once
           /\ \A t \in Sessions \ {s} : once[t] = log_queues[t]

\* Every step in which a stream runs its cleanup: the entry of its session is
\* absent afterwards, nothing changes when it was absent before, the entries
\* of the other sessions are as before, and the generator ends as it would
\* have (no error comes from the cleanup).
C13_CleanupSteps ==
    [][\A c \in Conns :
          conn'[c].cleanups = conn[c].cleanups + 1 =>
             /\ log_queues'[conn[c].sid] = NoQueue
             /\ log_queues[conn[c].sid] = NoQueue => log_queues' = log_queues
             /\ \A t \in Sessions \ {conn[c].sid} : log_queues'[t] = log_queues[t]
             /\ conn'[c].pc = "done"
             /\ conn'[c].exit \in {"disconnect", "cancelled", "exception"}]_vars

\* C13 -- destroySession idempotence: cleanup_session(id) on an id that is not
\* in the registry changes nothing and signals no error; calling it twice
\* leaves the registry as calling it once; entries of other sessions are never
\* affected.
C13_CleanupIdempotent == []C13_Idempotent /\ C13_CleanupSteps

\* Two streams resolved the same queue object of one session and both have
\* run their cleanup (the second one on an id already removed, no queue was
\* created in between), while the other session keeps its entry.
C13_Witness ==
    /\ conn["c1"].sid = conn["c2"].sid
    /\ conn["c1"].log_queue = conn["c2"].log_queue
    /\ conn["c1"].log_queue # NoQueue
    /\ conn["c1"].cleanups = 1 /\ conn["c2"].cleanups = 1
    /\ Len(queues) = 2
    /\ \E t \in Sessions \ {conn["c1"].sid} : log_queues[t] # NoQueue
    /\ log_queues[conn["c1"].sid] = NoQueue



\* C14 -- one live queue per session id: the queue a stream is draining and
\* the queue an attached handler of the same session id writes to are the same
\* queue object, and two streams of one session id drain the same queue
\* object.
C14_OneLiveQueue ==
    /\ \A c \in Conns : \A h \in handlers :
          (/\ conn[c].pc \in InLoop
           /\ h.session_id = conn[c].sid
           /\ log_queues[h.session_id] # NoQueue) =>
              conn[c].log_queue = log_queues[h.session_id]
    /\ \A c, d \in Conns :
          (/\ conn[c].pc \in InLoop /\ conn[d].pc \in InLoop
           /\ conn[c].sid = conn[d].sid) =>
              conn[c].log_queue = conn[d].log_queue

\* The session was issued by create_session once; a stream still drains the
\* queue made then, while the running job's handler has made a second queue
\* for the id and has put records on it.
C14_TwoQueues ==
    /\ issued = {"s1"}
    /\ conn["c1"].sid = "s1" /\ conn["c1"].pc \in InLoop /\ conn["c1"].log_queue = 1
    /\ conn["c2"].sid = "s1" /\ conn["c2"].pc = "done" /\ conn["c2"].log_queue = 1
    /\ job["j1"].sid = "s1"
    /\ log_queues["s1"] = 2
    /\ enqBy["j1"] > 0
    /\ queues[1] = <<>> /\ queues[2] # <<>>



\* The registry after one serial registry operation on the registry lq with
\* the queue objects qs: create_session(s), the check-then-insert of a handler
\* for s, cleanup_session(s).
SerialOutcomes(lq, qs) ==
    {[lq EXCEPT ![s] = Len(qs) + 1] : s \in {t \in Sessions : lq[t] = NoQueue}}
       \cup {[lq EXCEPT ![s] = NoQueue] : s \in Sessions}
       \cup {lq}

OldLen(q) == IF q <= Len(queues) THEN Len(queues[q]) ELSE 0

\* C15 -- registry mutual exclusion: every step of the system changes the
\* registry as one registry operation applied to the registry as it was (so a
\* run is a serial order of these operations); a queue registered for an id
\* is never replaced by another queue, only removed; and while a job logs,
\* every record is put once on the queue of each attached handler whose id is
\* in the registry (the lookup after the membership test never fails, no
\* record is lost or doubled).
C15_RegistrySerial ==
    [][/\ log_queues' \in SerialOutcomes(log_queues, queues)
       /\ \A s \in Sessions :
             log_queues[s] # NoQueue => log_queues'[s] \in {log_queues[s], NoQueue}
       /\ Len(queues') >= Len(queues)
       /\ clock' > clock =>
             \A q \in 1..Len(queues') :
                Len(queues'[q]) =
                   OldLen(q) + (clock' - clock)
                                  * Cardinality({h \in handlers' :
                                                    log_queues'[h.session_id] = q})]_vars

\* On one id: create_session issued it, two streams resolved its queue, a job
\* attached (the id had a queue, none was made), logged and ended, a stream
\* delivered some of the records, and both streams ran their cleanup.
C15_Witness ==
    /\ issued = {"s1"}
    /\ Len(queues) = 1
    /\ job["j1"].sid = "s1" /\ job["j1"].pc = "done" /\ enqBy["j1"] > 0
    /\ conn["c1"].sid = "s1" /\ conn["c1"].cleanups = 1
    /\ conn["c2"].sid = "s1" /\ conn["c2"].cleanups = 1
    /\ Len(DataFrames("c1")) > 0
    /\ log_queues["s1"] = NoQueue



\* The background task of job j has started and has not returned.
Running(j) == job[j].pc \notin {"idle", "rejected", "queued", "done"}

\* The stream that resolved the queue of job j's session has run its cleanup:
\* the queue the listener had was destroyed.
ListenerGone(j) ==
    \E c \in Conns : /\ conn[c].sid = job[j].sid
                     /\ conn[c].log_queue # NoQueue
                     /\ conn[c].cleanups = 1

\* A step of a stream (one that changes a connection) leaves every job, its
\* handler and its tracker as they were.
C16_TeardownLeavesJob ==
    [][conn' # conn =>
          /\ job' = job /\ handlers' = handlers
          /\ progress_trackers' = progress_trackers
          /\ emitted' = emitted]_vars

\* A job that has started can always take its next step, whatever the stream
\* has done, and it ends by failure only with an error of its own.
C16_JobNeverStopped ==
    /\ Running("j1") => ENABLED JobStep("j1", AllFaults)
    /\ job["j1"].result = "failure" => job["j1"].err.type \in {"GPTAPIError", "Exception"}

\* What a job logs once the listener's queue was destroyed is put on no queue.
C16_DroppedAfterTeardown ==
    [][\A j \in Jobs :
          (ListenerGone(j) /\ emitted'[j] # emitted[j]) =>
             /\ enqBy'[j] = enqBy[j]
             /\ \A q \in 1..Len(queues) : queues'[q] = queues[q]]_vars

\* C16 -- job independence from the listener: the teardown of the stream does
\* not stop, fail or otherwise change a job, and every event the job emits
\* after the listener's queue was destroyed is dropped.
C16_JobIndependent == C16_TeardownLeavesJob /\ C16_DroppedAfterTeardown

\* The listener's queue was destroyed, and the job that started afterwards has
\* logged into a queue its handler made.
C16_Retained ==
    /\ ListenerGone("j1")
    /\ job["j1"].pc = "done" /\ job["j1"].result = "success"
    /\ Len(queues) = 2
    /\ log_queues[job["j1"].sid] = 2
    /\ Len(queues[2]) = Len(emitted["j1"])



\* While a handler is attached its session id has a queue: the branch of emit
\* that drops a record is never taken.
C16_HandlerHasQueue == \A h \in handlers : log_queues[h.session_id] # NoQueue



\* The error a job was ended by is logged at ERROR level by the except clause.
IsErrorOf(j, r) ==
    /\ r.levelname = "ERROR"
    /\ r.msg.kind = (IF job[j].err.type = "GPTAPIError" THEN "task_failed"
                     ELSE "unexpected_error")

\* Every exception raised inside the try block is caught: the except clause
\* logs it at ERROR level, the handler of a job with a session id is attached
\* before and after the step and puts the record on the session's queue, and
\* the job goes on to its finally block.
C17_CaughtInTry ==
    [][\A j \in Jobs :
          (job[j].pc = "except" /\ job'[j].pc # "except") =>
             /\ job'[j].pc = "finally" /\ job'[j].result = "failure"
             /\ Len(emitted'[j]) > Len(emitted[j])
             /\ IsErrorOf(j, emitted'[j][Len(emitted[j]) + 1])
             /\ job[j].sid # NoSession =>
                   LET h == [h |-> j, session_id |-> job[j].sid]
                       q == log_queues[job[j].sid]
                   IN  /\ h \in handlers /\ h \in handlers'
                       /\ q # NoQueue
                       /\ Len(queues'[q]) > Len(queues[q])
                       /\ queues'[q][Len(queues[q]) + 1]
                             = Entry(emitted'[j][Len(emitted[j]) + 1])]_vars

\* No exception leaves the background task.
C17_NothingEscapes == \A j \in Jobs : ~job[j].raised

\* C17 -- unexpected errors are contained: any exception raised while
\* run_translation_task_full runs is caught at the job boundary, produces an
\* error-level event on the session's stream while the handler is attached,
\* and does not propagate out of the background task.
C17_ErrorsContained == []C17_NothingEscapes /\ C17_CaughtInTry

\* FileHandler() raised: the task ended with the exception, no handler was
\* attached and nothing was logged for the session.
C17_EscapedAtStart ==
    /\ job["j1"].pc = "done" /\ job["j1"].raised
    /\ job["j1"].sid \in Sessions
    /\ job["j1"].result = "none"
    /\ emitted["j1"] = <<>>

\* An exception raised inside the try block was caught and logged.
C17_CaughtWitness ==
    /\ job["j1"].pc = "done" /\ ~job["j1"].raised
    /\ job["j1"].result = "failure" /\ job["j1"].err.type = "Exception"
    /\ job["j1"].sid \in Sessions
    /\ \E n \in 1..Len(queues[log_queues[job["j1"].sid]]) :
          queues[log_queues[job["j1"].sid]][n].level = "ERROR"


\* A request answered 400 leaves no trace: it is answered in the step that
\* receives it, that step changes no handler, tracker or queue, and the
\* request never becomes a job afterwards.
C18_RejectedCreatesNothing ==
    [][\A j \in Jobs :
          /\ job[j].pc = "rejected" => job'[j] = job[j]
          /\ (job[j].pc # "rejected" /\ job'[j].pc = "rejected") =>
                /\ job[j].pc = "idle"
                /\ job'[j].response = 400
                /\ handlers' = handlers
                /\ progress_trackers' = progress_trackers
                /\ log_queues' = log_queues /\ queues' = queues
                /\ emitted' = emitted]_vars

\* Every request that became a background job carried an allowed extension.
C18_OnlyAllowedShapes ==
    \A j \in Jobs :
       job[j].pc \notin {"idle", "rejected"} => job[j].ext \in ALLOWED_EXTENSIONS

\* C18 -- synchronous validation: a job start request without a credential or
\* with a disallowed input shape (a file extension outside the allowed set) is
\* rejected to the caller before any background job is created; no job,
\* handler or tracker is ever created for such a request.
C18_SynchronousValidation == []C18_OnlyAllowedShapes /\ C18_RejectedCreatesNothing

\* A request without a credential was answered 400 and nothing exists for it.
C18_RejectedWitness ==
    /\ job["j1"].pc = "rejected" /\ job["j1"].response = 400
    /\ handlers = {} /\ emitted["j1"] = <<>>
    /\ job["j2"].pc = "done"

\* An upload with a disallowed extension was answered 200 and ran as a job
\* with a handler and a tracker, to the end.
C18_DisallowedRan ==
    /\ job["j1"].ext \notin ALLOWED_EXTENSIONS
    /\ job["j1"].response = 200
    /\ job["j1"].pc = "done" /\ job["j1"].result = "success"
    /\ job["j1"].sid \in Sessions
    /\ enqBy["j1"] > 0


\* The last record of the kind in e, or 0.
LastOf(e, kind) ==
    IF \E n \in 1..Len(e) : e[n].msg.kind = kind
    THEN CHOOSE n \in 1..Len(e) :
            /\ e[n].msg.kind = kind
            /\ \A m \in (n + 1)..Len(e) : e[m].msg.kind # kind
    ELSE 0

\* The chunk numbers of the records of the kind in e, in order.
ChunkNumbers(e, kind) ==
    LET sel == SelectSeq(e, LAMBDA r : r.msg.kind = kind)
    IN  [n \in 1..Len(sel) |-> sel[n].msg.cur]

\* A Transformation-complete milestone, an OutputGeneration milestone (start
\* or completed) or the completion marker.
AfterTransformation(r) ==
    \/ r.msg.kind = "stage_complete" /\ r.msg.stage = "translation"
    \/ r.msg.kind \in {"milestone", "stage_complete"} /\ r.msg.stage = "excel_generation"
    \/ r.msg.kind = "download_ready"

\* The transform call for chunk k of a sheet of job j has failed.
ChunkFailed(j) == job[j].err.type = "GPTAPIError" /\ job[j].err.chunk >= 1

\* C19 -- failed job event sequence: when the transform call for chunk k of a
\* job fails, the records of the sheet up to the failure are the completions
\* (and, with a tracker, the progress events) of chunks 1..k-1 in order,
\* followed by the error-level record of chunk k; the except clause then logs
\* the error-level record that ends the job; and the job never logs a
\* Transformation-complete milestone, an OutputGeneration milestone or the
\* completion marker.
C19_FailedJobSequence ==
    \A j \in Jobs :
       ChunkFailed(j) =>
          LET e == emitted[j]
              k == job[j].err.chunk
              f == LastOf(e, "chunk_failed")
              sheet == SubSeq(e, LastOf(e, "splitting") + 1, f - 1)
          IN  /\ f > 0 /\ e[f].levelname = "ERROR" /\ e[f].msg.cur = k
              /\ ChunkNumbers(sheet, "chunk_done") = [n \in 1..(k - 1) |-> n]
              /\ HasTracker(j) =>
                    ChunkNumbers(sheet, "progress") = [n \in 1..(k - 1) |-> n]
              /\ \A n \in 1..Len(e) : ~AfterTransformation(e[n])
              /\ \A n \in (f + 1)..Len(e) : e[n].msg.kind # "progress"
              /\ job[j].pc \in {"except", "finally", "done"}
              /\ job[j].pc \in {"finally", "done"} =>
                    /\ job[j].result = "failure"
                    /\ Len(e) > f
                    /\ e[f + 1].levelname = "ERROR" /\ e[f + 1].msg.kind = "task_failed"
                    /\ e[f + 1].msg.cur = k

\* Chunk 2 of 3 of a job with a tracker failed, after chunk 1's progress
\* event, and the job has ended.
C19_Witness ==
    /\ ChunkFailed("j1") /\ job["j1"].err.chunk = 2
    /\ job["j1"].sid \in Sessions
    /\ job["j1"].sheets = <<2 * CHUNK_SIZE + 2>>
    /\ job["j1"].pc = "done"
    /\ ChunkNumbers(emitted["j1"], "progress") = <<1>>

\* The chunk that failed is the first chunk of a second chunked sheet.
C19_WitnessSecondSheet ==
    /\ ChunkFailed("j1") /\ job["j1"].err.chunk = 1
    /\ job["j1"].k = 2 /\ job["j1"].sheets[1] > CHUNK_SIZE
    /\ job["j1"].pc = "done"


\* The stages of the records of the kind in e, in order.
StagesOf(e, kind) ==
    LET sel == SelectSeq(e, LAMBDA r : r.msg.kind = kind)
    IN  [n \in 1..Len(sel) |-> sel[n].msg.stage]

\* The records that report a percentage.
Reports(e) ==
    SelectSeq(e, LAMBDA r : r.msg.kind \in {"milestone", "stage_complete", "progress",
                                             "milestone_error"})

\* The positions in e of the records of the kind for the stage.
Positions(e, kind, stage) ==
    {n \in 1..Len(e) : e[n].msg.kind = kind /\ e[n].msg.stage = stage}

\* While no step of a job with a session id has failed, the stages it has set
\* are the first stages of Upload, Preparation, Transformation,
\* OutputGeneration, Complete, in that order and once each, and a stage's
\* completed milestone comes after its start and before the next start.
C20_StagesInOrder ==
    \A j \in Jobs :
       (job[j].sid # NoSession /\ job[j].err = NoErr) =>
          LET e == emitted[j]
              set == StagesOf(e, "milestone")
          IN  /\ IsPrefix(set, StageOrder)
              /\ \A i \in 1..Len(StageOrder) :
                    \A c \in Positions(e, "stage_complete", StageOrder[i]) :
                       /\ \E m \in Positions(e, "milestone", StageOrder[i]) : m < c
                       /\ i < Len(StageOrder) =>
                             \A m \in Positions(e, "milestone", StageOrder[i + 1]) : c < m
              /\ \A i \in 2..Len(set) :
                    Positions(e, "stage_complete", StageOrder[i - 1]) # {}

\* A job with a session id that has ended without a failure has set all five
\* stages and completed each, the last percentage it reported is 100, and a
\* sheet of 3 rows took exactly one transform call.
C20_SuccessfulEnd ==
    \A j \in Jobs :
       (job[j].sid # NoSession /\ job[j].pc = "done" /\ job[j].result = "success") =>
          LET e == emitted[j]
              rep == Reports(e)
          IN  /\ job[j].err = NoErr
              /\ StagesOf(e, "milestone") = StageOrder
              /\ \A i \in 1..Len(StageOrder) :
                    Positions(e, "stage_complete", StageOrder[i]) # {}
              /\ rep # <<>> /\ rep[Len(rep)].msg.pct = 100
              /\ \E n \in 1..Len(e) : e[n].msg.kind = "download_ready"
              /\ job[j].sheets = <<3>> => Len(job[j].calls) = 1

\* C20 -- successful job event sequence: a job with a session id in which no
\* step fails sets the stages in exactly the order Upload, Preparation,
\* Transformation, OutputGeneration, Complete, each stage's completed
\* milestone follows its start milestone and precedes the next stage's start,
\* and the last percentage it reports is 100 (for 3 rows with chunk size 5
\* this happens with exactly 1 transform call).
C20_SuccessfulJobSequence == C20_StagesInOrder /\ C20_SuccessfulEnd

\* A job with a session id over one sheet of 3 rows has ended in success.
C20_Witness ==
    /\ job["j1"].sid \in Sessions
    /\ job["j1"].sheets = <<3>>
    /\ job["j1"].pc = "done" /\ job["j1"].result = "success"
    /\ Len(job["j1"].calls) = 1 /\ job["j1"].calls[1].outcome = "ok"

\* A job with a session id over two chunked sheets has ended in success.
C20_WitnessChunked ==
    /\ job["j1"].sid \in Sessions
    /\ Len(job["j1"].sheets) = 2
    /\ \A k \in 1..2 : job["j1"].sheets[k] > CHUNK_SIZE
    /\ job["j1"].pc = "done" /\ job["j1"].result = "success"


\* Once the client has closed the connection the loop makes no dequeue
\* attempt beyond the one that was going on: a step of the stream that starts
\* with the disconnect visible delivers no frame and takes nothing from the
\* queue, and the iteration that starts then breaks out and runs the cleanup.
C21_NoDequeueOnceSeen ==
    [][\A c \in Conns :
          (conn[c].disconnected /\ conn'[c] # conn[c]) =>
             /\ conn'[c].frames = conn[c].frames
             /\ queues' = queues
             /\ conn'[c].late = conn[c].late
             /\ conn[c].pc = "top" =>
                   /\ conn'[c].pc = "done"
                   /\ conn'[c].exit \in {"disconnect", "cancelled", "exception"}
                   /\ conn'[c].cleanups = conn[c].cleanups + 1
                   /\ log_queues'[conn[c].sid] = NoQueue]_vars

\* At most one dequeue attempt is made after the client closed, and the
\* stream that ended by the break has run the cleanup once.
C21_AtMostOneLate ==
    \A c \in Conns :
       /\ conn[c].late <= 1
       /\ conn[c].late = 1 => conn[c].disconnected
       /\ conn[c].exit = "disconnect" =>
             conn[c].pc = "done" /\ conn[c].disconnected /\ conn[c].cleanups = 1

\* C21 -- bounded exit on disconnect: the loop checks for client disconnect
\* at the start of every iteration, so after the client disconnects it makes
\* at most one further dequeue attempt (one data or keepalive frame) before
\* it exits and runs the cleanup.
C21_BoundedExit == []C21_AtMostOneLate /\ C21_NoDequeueOnceSeen

\* The client closed while the loop was waiting on the queue; the loop
\* delivered that one frame, left entries of the job on the queue, and exited
\* through the break with the cleanup done.
C21_Witness ==
    /\ conn["c1"].pc = "done" /\ conn["c1"].exit = "disconnect"
    /\ conn["c1"].late = 1 /\ conn["c1"].cleanups = 1
    /\ Len(conn["c1"].frames) >= 1
    /\ queues[conn["c1"].log_queue] # <<>>


\* Job j is at a transform call: the call of translate_csv for a small sheet
\* or the call for the next chunk.
AtTransformCall(j) == job[j].pc \in {"direct", "chunk"}

\* While a job is at a transform call, the stream of its session can take its
\* next step (dequeue and deliver an event that was already emitted, or send
\* a keepalive).
C22_StreamRunsDuringCall ==
    \A j \in Jobs, c \in Conns :
       (AtTransformCall(j) /\ conn[c].sid = job[j].sid /\ conn[c].pc = "top") =>
          ENABLED StreamPoll(c)

\* While a job is at a transform call, another request can be served.
C22_RequestsServedDuringCall ==
    \A j \in Jobs :
       (AtTransformCall(j) /\ issued # Sessions) =>
          ENABLED (\E s \in Sessions : CreateSession(s))

\* C22 -- job and stream run concurrently: while a job is blocked in a
\* per-chunk transform call only the job task is suspended; the session's
\* stream can still dequeue and deliver the events already emitted and other
\* requests can be served.
C22_Concurrent == C22_StreamRunsDuringCall /\ C22_RequestsServedDuringCall

\* From the first step of a job to its last, no stream takes a step and no
\* session is created: connections and issued ids stay as they are.
C22_LoopHeldByJob ==
    [][loop # NoJob => (conn' = conn /\ issued' = issued /\ loop' \in {loop, NoJob})]_vars

\* A job with a stream open on its session has reached its finally block
\* with every record it logged still on the queue: nothing was delivered
\* while it ran.
C22_NothingDeliveredMeanwhile ==
    /\ job["j1"].pc = "finally" /\ job["j1"].result = "success"
    /\ Len(job["j1"].calls) = 2
    /\ conn["c1"].sid = job["j1"].sid /\ conn["c1"].pc \in InLoop
    /\ conn["c1"].frames = <<>>
    /\ Len(queues[conn["c1"].log_queue]) = Len(emitted["j1"])


\* The terminal markers among the records e: the DOWNLOAD_READY record of
\* line 201 and the error records of the except clauses (205, 210).
ErrorMarkers == {"task_failed", "unexpected_error"}

Markers(e) ==
    SelectSeq(e, LAMBDA r : r.msg.kind \in {"download_ready"} \cup ErrorMarkers)

\* Job j has ended with exactly one terminal marker, the one of its outcome.
OneMarker(j) ==
    LET m == Markers(emitted[j])
    IN  /\ Len(m) = 1
        /\ job[j].result = "success" => m[1].msg.kind = "download_ready"
        /\ job[j].result # "success" =>
              m[1].msg.kind \in ErrorMarkers /\ m[1].levelname = "ERROR"

\* C23 -- terminal marker: every job that terminates emits exactly one
\* terminal marker as a log event, the completion marker if it succeeded or an
\* error marker if it failed, never both and never neither.
C23_TerminalMarker == \A j \in Jobs : job[j].pc = "done" => OneMarker(j)

\* The same for the jobs that have a session id and so a handler: one marker,
\* logged while the handler was attached (every record of the job was put on
\* the session's queue), and no marker before the job ends otherwise.
C23_SessionJobsMarked ==
    \A j \in Jobs :
       job[j].sid # NoSession =>
          /\ (job[j].pc = "done" /\ ~job[j].raised) =>
                (OneMarker(j) /\ enqBy[j] = Len(emitted[j]))
          /\ job[j].pc \in {"finally", "done"} \/ Markers(emitted[j]) = <<>>

\* A job without a session id has ended in success and logged no marker.
C23_SuccessUnmarked ==
    /\ job["j1"].pc = "done" /\ job["j1"].result = "success"
    /\ job["j1"].sid = NoSession
    /\ Len(job["j1"].calls) >= 1
    /\ Markers(emitted["j1"]) = <<>>

\* Jobs with a session id have ended with their marker: one by success and,
\* in another behaviour, one by failure.
C23_MarkedWitness ==
    /\ job["j1"].pc = "done" /\ job["j1"].sid \in Sessions
    /\ job["j1"].result = "failure"
    /\ OneMarker("j1")


\* The step has made a transform call that returned fewer rows than it got.
ShortCallMade(j) ==
    /\ Len(job'[j].calls) = Len(job[j].calls) + 1
    /\ job'[j].calls[Len(job'[j].calls)].outcome = "short"

\* The records job j logs in the step.
NewRecords(j) == SubSeq(emitted'[j], Len(emitted[j]) + 1, Len(emitted'[j]))

\* A transform call that returns fewer rows logs the warning and nothing at
\* ERROR level, raises no error, and the job goes on: to the next chunk or to
\* the combination of the chunks, or, for a sheet sent whole, to the next
\* sheet or the output.
C24_ShortCallGoesOn ==
    [][\A j \in Jobs :
          ShortCallMade(j) =>
             LET call == job'[j].calls[Len(job'[j].calls)]
                 R == job[j].sheets[job[j].k]
             IN  /\ Len(call.reply) < Len(call.rows)
                 /\ \E n \in 1..Len(NewRecords(j)) :
                       /\ NewRecords(j)[n].levelname = "WARNING"
                       /\ NewRecords(j)[n].msg.kind = "row_count_mismatch"
                 /\ \A n \in 1..Len(NewRecords(j)) : NewRecords(j)[n].levelname # "ERROR"
                 /\ job'[j].err = NoErr
                 /\ IF call.num = 0
                    THEN /\ job'[j].pc \in {"sheet", "generate"}
                         /\ job'[j].dict = Append(job[j].dict, json_to_csv(call.reply))
                    ELSE /\ job'[j].acc = job[j].acc \o call.reply
                         /\ job'[j].pc = (IF call.num * CHUNK_SIZE < R THEN "chunk"
                                          ELSE "combine")]_vars

\* A job whose calls all returned (completely or with rows lost) and that no
\* other fault has hit ends in success, with every sheet's output built from
\* the rows that were returned, in order.
C24_CompletesWithReturnedRows ==
    \A j \in Jobs :
       (job[j].pc = "done" /\ job[j].err = NoErr /\ ~job[j].raised) =>
          /\ job[j].result = "success"
          /\ Len(job[j].dict) = Len(job[j].sheets)
          /\ \A k \in 1..Len(job[j].sheets) :
                /\ job[j].dict[k] = json_to_csv(ConcatReplies(CallsOf(j, k)))
                /\ Len(CallsOf(j, k)) = ExpectedCalls(job[j].sheets[k])

\* C24 -- data loss is non-fatal: when a transform call returns fewer rows
\* than it was given (for the whole input or for any chunk) a warning is
\* logged, no error is raised, the remaining chunks are still processed, and
\* the job completes with the output built from the rows that were returned.
C24_DataLossNonFatal == []C24_CompletesWithReturnedRows /\ C24_ShortCallGoesOn

\* The first of three chunks lost a row, the other two were still sent, and
\* the job ended in success with one row fewer in the output.
C24_Witness ==
    /\ job["j1"].pc = "done" /\ job["j1"].result = "success"
    /\ job["j1"].sheets = <<2 * CHUNK_SIZE + 1>>
    /\ Len(job["j1"].calls) = 3
    /\ job["j1"].calls[1].outcome = "short"
    /\ job["j1"].calls[2].outcome = "ok" /\ job["j1"].calls[3].outcome = "ok"
    /\ Len(job["j1"].dict[1].lines) = 2 * CHUNK_SIZE

\* A sheet sent whole lost a row.
C24_WitnessWhole ==
    /\ job["j1"].pc = "done" /\ job["j1"].result = "success"
    /\ Len(job["j1"].sheets) = 1 /\ job["j1"].sheets[1] = CHUNK_SIZE
    /\ job["j1"].calls[1].outcome = "short"
    /\ Len(job["j1"].dict[1].lines) = CHUNK_SIZE - 1


\* Connection c is opened in the step, for a session id without a queue.
OpensUnknown(c) ==
    /\ conn[c].pc = "idle" /\ conn'[c].pc # "idle"
    /\ log_queues[conn'[c].sid] = NoQueue

\* Such a stream has ended in the step that opened it, with the error frame
\* as its only frame, outside the loop and its cleanup, and the step left the
\* registry and every queue as they were; a stream that has ended does
\* nothing more.
C25_UnknownSessionStep ==
    [][\A c \in Conns :
          /\ OpensUnknown(c) =>
                /\ conn'[c].pc = "done" /\ conn'[c].exit = "invalid"
                /\ conn'[c].frames = <<ErrorFrame>>
                /\ conn'[c].log_queue = NoQueue
                /\ conn'[c].cleanups = 0
                /\ log_queues' = log_queues /\ queues' = queues
                /\ handlers' = handlers
          /\ conn[c].pc = "done" => conn'[c] = conn[c]]_vars

\* The error frame is sent for an unknown session only, and never with
\* another frame.
C25_ErrorFrameAlone ==
    \A c \in Conns :
       (\E n \in 1..Len(conn[c].frames) : conn[c].frames[n].type = "error") =>
          /\ conn[c].frames = <<ErrorFrame>>
          /\ conn[c].pc = "done" /\ conn[c].exit = "invalid" /\ conn[c].cleanups = 0

\* C25 -- unknown session on stream open: a stream opened for a session id
\* that has no queue in the registry yields exactly one error frame and then
\* ends, without entering the drain loop, without raising, and without
\* creating or removing any registry entry.
C25_UnknownSession == []C25_ErrorFrameAlone /\ C25_UnknownSessionStep

\* A stream was opened for a session the first stream had already cleaned
\* up; it got the error frame, and the entry of the other session is still
\* in the registry.
C25_Witness ==
    /\ conn["c1"].cleanups = 1 /\ conn["c1"].pc = "done"
    /\ conn["c2"].sid = conn["c1"].sid
    /\ conn["c2"].pc = "done" /\ conn["c2"].exit = "invalid"
    /\ conn["c2"].frames = <<ErrorFrame>>
    /\ \E t \in Sessions \ {conn["c2"].sid} : log_queues[t] # NoQueue

\* A stream was opened for an id that create_session never returned.
C25_WitnessNeverCreated ==
    /\ conn["c1"].exit = "invalid" /\ conn["c1"].sid \notin issued


\* No two streams are in the loop on the same queue.
C26_OneConsumer ==
    \A c, d \in Conns :
       (c # d /\ conn[c].pc \in InLoop /\ conn[d].pc \in InLoop) =>
          conn[c].log_queue # conn[d].log_queue

\* The events of a session are not delivered partly to one stream and partly
\* to another.
C26_NotSplit ==
    \A c, d \in Conns :
       (c # d /\ conn[c].sid = conn[d].sid) =>
          (DataFrames(c) = <<>> \/ DataFrames(d) = <<>>)

\* C26 -- single consumer: at no time do two stream connections consume from
\* the same session's queue; the events of a session are all delivered to one
\* stream connection and never split between two.
C26_SingleConsumer == C26_OneConsumer /\ C26_NotSplit

\* Two streams of one session have drained the queue between them: each got
\* some of the job's records, neither got all, and none was delivered twice.
C26_Split ==
    /\ conn["c1"].sid = conn["c2"].sid
    /\ conn["c1"].log_queue # NoQueue
    /\ conn["c1"].log_queue = conn["c2"].log_queue
    /\ job["j1"].pc = "done" /\ job["j1"].sid = conn["c1"].sid
    /\ queues[conn["c1"].log_queue] = <<>>
    /\ DataFrames("c1") # <<>> /\ DataFrames("c2") # <<>>
    /\ Len(DataFrames("c1")) + Len(DataFrames("c2")) = Len(emitted["j1"])


\* The sum of the weights of the stages strictly before the stage.
WeightsBefore(stage) ==
    SumSeq(SubSeq(ExpectedWeights, 1, StageIndex(stage) - 1))

\* C27 -- setStage reports the stage start: for every stage s and every prior
\* tracker state (chunk counters left non-zero included) set_stage(s) reports
\* the sum of the weights of the stages strictly before s.
C27_SetStageReportsStart ==
    (ptOut.type = "milestone" /\ ~ptOut.completed) =>
       ptOut.percentage = WeightsBefore(ptOut.stage)

\* It does so for every stage but Transformation, and for Transformation
\* while the total chunk count is 0.
C27_StartUnlessChunked ==
    (/\ ptOut.type = "milestone" /\ ~ptOut.completed
     /\ (ptOut.stage # "translation" \/ pt.total_chunks = 0)) =>
       ptOut.percentage = WeightsBefore(ptOut.stage)

\* set_stage(Transformation) on a tracker with 2 of 3 chunks completed has
\* reported 60, not 20.
C27_ReportsChunkProgress ==
    /\ ptOut.type = "milestone" /\ ~ptOut.completed
    /\ ptOut.stage = "translation"
    /\ pt.completed_chunks = 2 /\ pt.total_chunks = 3
    /\ ptOut.percentage = 60

\* In a job every start milestone carries the start of its stage: the job
\* sets Transformation before the first chunk count is reported.
C27_JobMilestonesAtStart ==
    \A j \in Jobs : \A n \in 1..Len(emitted[j]) :
       emitted[j][n].msg.kind \in {"milestone", "milestone_error"} =>
          emitted[j][n].msg.pct = WeightsBefore(emitted[j][n].msg.stage)


\* The stage after the stage in the order (Complete has none).
Successor(stage) ==
    IF StageIndex(stage) < Len(StageOrder) THEN StageOrder[StageIndex(stage) + 1]
    ELSE stage

\* C28 -- complete_stage(stage) marks the stage as complete and moves the
\* tracker to the next stage: after the call the current stage of the tracker
\* is the successor of the given stage.
C28_CompleteMovesOn ==
    (ptOut.type = "milestone" /\ ptOut.completed) =>
       pt.current_stage = Successor(ptOut.stage)

\* complete_stage changes nothing in the tracker: the stage and the chunk
\* counters after the call are those before it.
C28_CompleteLeavesTracker ==
    [][(ptOut' # ptOut /\ ptOut'.type = "milestone" /\ ptOut'.completed) => pt' = pt]_vars

\* complete_stage(Upload) on a new tracker has reported 10 and the tracker is
\* still in Upload.
C28_StillInStage ==
    /\ ptOut.type = "milestone" /\ ptOut.completed
    /\ ptOut.stage = "upload" /\ ptOut.percentage = 10
    /\ pt = NewTracker


\* The chunk totals job j has reported to its tracker, in order.
ReportedTotals(j) ==
    LET sel == SelectSeq(emitted[j], LAMBDA r : r.msg.kind = "chunks_total")
    IN  [n \in 1..Len(sel) |-> sel[n].msg.tot]

\* In every state of the tracker of a running job the completed count is
\* between 0 and the total, and the total is 0 while the job has reported no
\* chunk count.
C29_CounterBounds ==
    \A j \in Jobs :
       (Running(j) /\ HasTracker(j)) =>
          /\ 0 <= Tracker(j).completed_chunks
          /\ Tracker(j).completed_chunks <= Tracker(j).total_chunks
          /\ ReportedTotals(j) = <<>> => Tracker(j).total_chunks = 0
          /\ ReportedTotals(j) # <<>> =>
                Tracker(j).total_chunks = ReportedTotals(j)[Len(ReportedTotals(j))]

\* The step in which a job reports a chunk count sets the total to it and
\* the completed count to 0, and leaves the current stage as it was.
C29_SetChunksStep ==
    [][\A j \in Jobs :
          Len(ReportedTotals(j)') > Len(ReportedTotals(j)) =>
             /\ Tracker(j)'.total_chunks = ReportedTotals(j)'[Len(ReportedTotals(j)')]
             /\ Tracker(j)'.completed_chunks = 0
             /\ Tracker(j)'.current_stage = Tracker(j).current_stage]_vars

\* C29 -- chunk counter invariant: in every reachable tracker state
\* 0 <= completed chunk count <= total chunk count, the total is 0 until a
\* chunk count is reported, and set_translation_chunks(total) sets the total
\* and resets the completed count to 0 without changing the current stage.
C29_ChunkCounters == []C29_CounterBounds /\ C29_SetChunksStep

\* A job has reported the chunk count of its second chunked sheet, smaller
\* than that of the first one: the total is the new count and the completed
\* count is back to 0.
C29_Witness ==
    /\ job["j1"].sid \in Sessions /\ job["j1"].pc = "chunk"
    /\ job["j1"].k = 2 /\ job["j1"].i = 0
    /\ ReportedTotals("j1") = <<3, 2>>
    /\ Tracker("j1").total_chunks = 2 /\ Tracker("j1").completed_chunks = 0
    /\ Tracker("j1").current_stage = "translation"

\* The same for the method on any tracker state and any total: its effect is
\* the total set, the completed count 0, the stage kept.
C29_SetChunksOnAnyState ==
    [][(pt' # pt /\ ptOut' = NoReturn) =>
          \E total \in 0..MaxChunks :
             pt' = [pt EXCEPT !.total_chunks = total, !.completed_chunks = 0]]_vars


\* The positions in e at which the translation of a sheet starts, in order.
SheetStarts(e) ==
    SelectSeq([n \in 1..Len(e) |-> n], LAMBDA n : e[n].msg.kind = "sheet_start")

\* The records job j logged for its k-th sheet.
SheetRecords(j, k) ==
    LET e == emitted[j]
        st == SheetStarts(e)
    IN  SubSeq(e, st[k], IF k < Len(st) THEN st[k + 1] - 1 ELSE Len(e))

\* The records of the chunk protocol: the total, and per chunk its start, its
\* end (done or failed) and the progress report.
InProtocol(r) ==
    r.msg.kind \in {"chunks_total", "chunk_start", "chunk_done", "chunk_failed", "progress"}

\* C30 -- chunk reporting protocol: for a sheet of R > C rows the total chunk
\* count N is reported exactly once and before the first transform call, and
\* chunk_complete(i, N) is reported exactly once after each successful chunk
\* i, in increasing i from 1, and never for a failed chunk; for R <= C no
\* chunk total and no chunk progress is reported at all.
C30_ChunkReporting ==
    \A j \in Jobs :
       HasTracker(j) =>
          \A k \in 1..Len(SheetStarts(emitted[j])) :
             LET R == job[j].sheets[k]
                 N == CeilDiv(R, CHUNK_SIZE)
                 q == SelectSeq(SheetRecords(j, k), InProtocol)
                 chunk(n) == ((n - 2) \div 3) + 1
             IN  IF R <= CHUNK_SIZE \/ q = <<>>
                 THEN q = <<>>
                 ELSE /\ q[1].msg.kind = "chunks_total" /\ q[1].msg.tot = N
                      /\ \A n \in 2..Len(q) :
                            /\ q[n].msg.cur = chunk(n) /\ q[n].msg.tot = N
                            /\ chunk(n) <= N
                            /\ (n - 2) % 3 = 0 => q[n].msg.kind = "chunk_start"
                            /\ (n - 2) % 3 = 1 =>
                                  \/ q[n].msg.kind = "chunk_done"
                                  \/ q[n].msg.kind = "chunk_failed" /\ n = Len(q)
                            /\ (n - 2) % 3 = 2 =>
                                  q[n].msg.kind = "progress" /\ q[n - 1].msg.kind = "chunk_done"
                      /\ Len(SelectSeq(q, LAMBDA r : r.msg.kind \in {"chunk_done", "chunk_failed"}))
                            = Len(CallsOf(j, k))

\* A job with a tracker: a small sheet, then a sheet of three chunks whose
\* third chunk failed after two progress reports.
C30_Witness ==
    /\ job["j1"].sid \in Sessions /\ job["j1"].pc = "done"
    /\ Len(job["j1"].sheets) = 2
    /\ job["j1"].sheets[1] \in 1..CHUNK_SIZE
    /\ job["j1"].sheets[2] > 2 * CHUNK_SIZE
    /\ ChunkFailed("j1") /\ job["j1"].err.chunk = 3
    /\ ChunkNumbers(emitted["j1"], "progress") = <<1, 2>>
    /\ ReportedTotals("j1") = <<3>>

\* Every chunk of a sheet of three chunks was reported.
C30_WitnessAll ==
    /\ job["j1"].sid \in Sessions /\ job["j1"].result = "success"
    /\ Len(job["j1"].sheets) = 1
    /\ ChunkNumbers(emitted["j1"], "progress") = <<1, 2, 3>>


\* The jobs that are running with the session id.
RunningOn(s) == {j \in Jobs : Running(j) /\ job[j].sid = s}

\* A session id has a tracker exactly while a job started with it is running
\* (from the start of its try block to its finally block), and at most one
\* job is running on the id at a time.
C31_RegisteredWhileRunning ==
    \A s \in Sessions :
       /\ Cardinality(RunningOn(s)) <= 1
       /\ progress_trackers[s] # NoTracker <=> RunningOn(s) # {}

\* The step that ends a job removes the tracker of its session, whatever the
\* outcome of the job and whatever the stream has done to the queue; no step
\* of a stream and no other request changes the tracker registry.
C31_RemovedOnExit ==
    [][/\ \A j \in Jobs :
             (job[j].pc # "done" /\ job'[j].pc = "done" /\ job[j].sid # NoSession) =>
                progress_trackers'[job[j].sid] = NoTracker
       /\ job' = job => progress_trackers' = progress_trackers]_vars

\* C31 -- tracker lifecycle: for a job started with a session id at most one
\* tracker is registered for the session at any time, it is registered from
\* job start until the job finishes, and it is removed from the tracker
\* registry on every exit path of the job (success, TranslationError, other
\* exception), independently of whether the stream has torn down the queue.
C31_TrackerLifecycle == []C31_RegisteredWhileRunning /\ C31_RemovedOnExit

\* Two jobs on one session id have ended, one by an exception that is not a
\* TranslationError and one by a TranslationError, the stream of the session
\* has torn down the queue, and no tracker is registered.
C31_Witness ==
    /\ job["j1"].pc = "done" /\ job["j2"].pc = "done"
    /\ job["j1"].sid \in Sessions /\ job["j2"].sid = job["j1"].sid
    /\ job["j1"].err.type = "Exception" /\ job["j2"].err.type = "GPTAPIError"
    /\ conn["c1"].sid = job["j1"].sid /\ conn["c1"].cleanups = 1
    /\ \A s \in Sessions : progress_trackers[s] = NoTracker

\* A job on a session id has ended in success after the stream tore down.
C31_WitnessSuccess ==
    /\ job["j1"].pc = "done" /\ job["j1"].result = "success"
    /\ job["j1"].sid \in Sessions
    /\ ListenerGone("j1")
    /\ progress_trackers[job["j1"].sid] = NoTracker


\* The percentages job j has reported, in order.
Percentages(j) == [n \in 1..Len(Reports(emitted[j])) |-> Reports(emitted[j])[n].msg.pct]

NonDecreasing(q) == \A n \in 2..Len(q) : q[n] >= q[n - 1]

\* The sheets of job j that are large enough to be chunked.
ChunkedSheets(j) == {k \in 1..Len(job[j].sheets) : job[j].sheets[k] > CHUNK_SIZE}

\* C32 -- reported percentage never decreases within a job: over the whole
\* event sequence of one job (start and completed milestones and chunk
\* progress events), with several chunked sheets and on the error paths, each
\* reported percentage is greater than or equal to the one reported before.
C32_PercentageMonotone == \A j \in Jobs : NonDecreasing(Percentages(j))

\* It never decreases in a job with at most one chunked sheet, on the success
\* path and on the error paths.
C32_MonotoneOneChunkedSheet ==
    \A j \in Jobs :
       Cardinality(ChunkedSheets(j)) <= 1 => NonDecreasing(Percentages(j))

\* A job over two sheets of two chunks each: after 80 for the last chunk of
\* the first sheet it has reported 50 for the first chunk of the second.
C32_Drop ==
    /\ job["j1"].sid \in Sessions
    /\ Len(job["j1"].sheets) = 2
    /\ \A k \in 1..2 : job["j1"].sheets[k] \in (CHUNK_SIZE + 1)..(2 * CHUNK_SIZE)
    /\ \E n \in 2..Len(Percentages("j1")) :
          Percentages("j1")[n - 1] = 80 /\ Percentages("j1")[n] = 50


\* No stream is between its opening and its teardown.
StreamsAtRest == \A c \in Conns : conn[c].pc \in {"idle", "done"}

\* C33 -- no registry leak: for every interleaving of one job and at most one
\* stream on a session id (stream opened before, during or after the job, torn
\* down before the job attaches its handler, or never opened), once the job
\* has finished and any stream has torn down, the queue registry holds no
\* entry for that session id.
C33_NoRegistryLeak ==
    \A j \in Jobs :
       (job[j].pc = "done" /\ job[j].sid \in Sessions /\ StreamsAtRest) =>
          log_queues[job[j].sid] = NoQueue

\* The teardown of a stream removes the entry of its session id, and an
\* absent entry of an issued id comes back only by the start of a job that is
\* queued on that id.
C33_OnlyJobStartRecreates ==
    [][/\ \A c \in Conns :
             (conn[c].pc \notin {"idle", "done"} /\ conn'[c].pc = "done") =>
                log_queues'[conn[c].sid] = NoQueue
       /\ \A s \in Sessions :
             (/\ s \in issued /\ log_queues[s] = NoQueue
              /\ \A j \in Jobs : ~(job[j].pc = "queued" /\ job[j].sid = s)) =>
                log_queues'[s] = NoQueue]_vars

\* The job ran on an id made by create_session and no stream was ever opened:
\* the queue is still registered, with every event of the job on it.
C33_LeakNeverOpened ==
    /\ job["j1"].pc = "done" /\ job["j1"].sid \in issued
    /\ conn["c1"].pc = "idle"
    /\ log_queues[job["j1"].sid] # NoQueue
    /\ Len(queues[log_queues[job["j1"].sid]]) = Len(emitted["j1"])

\* The stream of the job's id tore down, cleanup_session ran once, and the
\* queue the handler made at the job's start is still registered.
C33_LeakAfterTeardown ==
    /\ job["j1"].pc = "done" /\ job["j1"].sid \in Sessions
    /\ conn["c1"].pc = "done" /\ conn["c1"].sid = job["j1"].sid
    /\ conn["c1"].cleanups = 1
    /\ log_queues[job["j1"].sid] # NoQueue

\* The stream tore down after the job had finished: no entry is left.
C33_NoLeakWhenDrainedAfter ==
    /\ job["j1"].pc = "done" /\ job["j1"].sid \in Sessions
    /\ conn["c1"].pc = "done" /\ conn["c1"].sid = job["j1"].sid
    /\ Len(conn["c1"].frames) = Len(emitted["j1"]) /\ Len(emitted["j1"]) > 0
    /\ log_queues[job["j1"].sid] = NoQueue


\* Every record carries its own stamp (`created`), in emission order, so a
\* sequence of entries with strictly increasing stamps holds no record twice.
Increasing(q) == \A n \in 2..Len(q) : q[n].timestamp > q[n - 1].timestamp

\* No record is twice in a queue or twice among the data frames of a stream,
\* and no record is both delivered and still waiting in the stream's queue.
C34_NoCopy ==
    /\ \A q \in 1..Len(queues) : Increasing(queues[q])
    /\ \A c \in Conns :
          /\ Increasing(DataFrames(c))
          /\ (conn[c].log_queue # NoQueue /\ DataFrames(c) # <<>>
                 /\ queues[conn[c].log_queue] # <<>>) =>
                Head(queues[conn[c].log_queue]).timestamp >
                   DataFrames(c)[Len(DataFrames(c))].timestamp

\* At most one handler is attached for a session id at any time.
C34_OneHandlerPerSession ==
    \A h1, h2 \in handlers : h1.session_id = h2.session_id => h1 = h2

\* A step in which a job with a session logs n records adds exactly n entries
\* to the queue of that session.
C34_OneEntryPerRecord ==
    [][\A j \in Jobs :
          (job[j].sid \in Sessions /\ emitted'[j] # emitted[j]) =>
             LET q == log_queues'[job[j].sid]
                 before == IF q \in 1..Len(queues) THEN Len(queues[q]) ELSE 0
             IN  /\ q # NoQueue
                 /\ Len(queues'[q]) = before + Len(emitted'[j]) - Len(emitted[j])]_vars

\* C34 -- no duplicate events: each log record emitted while a session's job
\* runs is enqueued into that session's queue at most once, also when two
\* jobs were started with the same session id and both are unfinished.
C34_NoDuplicateEvents ==
    /\ [](C34_NoCopy /\ C34_OneHandlerPerSession)
    /\ C34_OneEntryPerRecord

\* Two jobs accepted on one session id, neither finished: the first runs and
\* has logged through its handler, the second waits for the loop.
C34_Witness ==
    /\ job["j1"].sid \in Sessions /\ job["j2"].sid = job["j1"].sid
    /\ Running("j1") /\ job["j1"].log_handler /\ Len(emitted["j1"]) >= 2
    /\ job["j2"].pc = "queued"
    /\ log_queues[job["j1"].sid] # NoQueue
    /\ Len(queues[log_queues[job["j1"].sid]]) = Len(emitted["j1"])

\* Both jobs of one session id have ended and no stream was opened: the
\* queue holds one entry for each record of the two jobs.
C34_WitnessBothDone ==
    /\ job["j1"].sid \in Sessions /\ job["j2"].sid = job["j1"].sid
    /\ job["j1"].pc = "done" /\ job["j2"].pc = "done"
    /\ Len(emitted["j1"]) > 0 /\ Len(emitted["j2"]) > 0
    /\ conn["c1"].pc = "idle"
    /\ Len(queues[log_queues[job["j1"].sid]]) = Len(emitted["j1"]) + Len(emitted["j2"])


\* An entry with stamp t waits in the queue that stream c drains.
Waiting(c, t) ==
    /\ conn[c].pc \in InLoop
    /\ \E n \in 1..Len(queues[conn[c].log_queue]) :
          queues[conn[c].log_queue][n].timestamp = t

\* Stream c has yielded the record with stamp t as a data frame.
Delivered(c, t) ==
    \E n \in 1..Len(conn[c].frames) :
       IsData(conn[c].frames[n]) /\ conn[c].frames[n].timestamp = t

\* The stream is inside its loop and entries wait in the queue it drains.
Backlog(c) == conn[c].pc \in InLoop /\ queues[conn[c].log_queue] # <<>>

\* While the stream of a job's session is inside its loop, every record the
\* job has emitted waits in the stream's queue or was yielded by the stream.
C35_NothingLost ==
    (conn["c1"].pc \in InLoop /\ conn["c1"].sid = job["j1"].sid) =>
       \A n \in 1..Len(emitted["j1"]) :
          \/ Waiting("c1", emitted["j1"][n].created)
          \/ Delivered("c1", emitted["j1"][n].created)

\* A backlog is eventually worked off: the queue of a stream inside its loop
\* becomes empty, unless the stream ends first.  With C35_NothingLost every
\* entry that waited has then been yielded as a data frame.
C35_EventuallyDelivered ==
    Backlog("c1") ~>
       (conn["c1"].pc = "done" \/
          (conn["c1"].pc \in InLoop /\ queues[conn["c1"].log_queue] = <<>>))

\* One iteration of the loop: from the top, with the client connected, the
\* generator yields one frame; a data frame made from the head of the queue,
\* which is removed, if the queue holds an entry, and a keepalive, with the
\* queue and the data frames as they were, if it holds none.
C35_OneFramePerIteration ==
    [][\A c \in Conns :
          (conn[c].pc = "top" /\ conn'[c].pc # "top" /\ conn'[c].pc # "done") =>
             LET q == conn[c].log_queue
             IN  IF queues[q] # <<>>
                 THEN /\ conn'[c].pc = "yield_data"
                      /\ conn'[c].frames = Append(conn[c].frames, DataFrame(Head(queues[q])))
                      /\ queues' = [queues EXCEPT ![q] = Tail(@)]
                 ELSE /\ conn'[c].pc = "yield_keepalive"
                      /\ conn'[c].frames = conn[c].frames
                      /\ queues' = queues]_vars

\* From the keepalive to the top of the loop (the yield, the sleep) no step of
\* the stream takes an entry off a queue or yields a data frame.
C35_KeepaliveTakesNothing ==
    [][\A c \in Conns :
          (conn[c].pc \in {"yield_keepalive", "sleep"} /\ conn'[c] # conn[c]) =>
             /\ queues' = queues
             /\ conn'[c].frames = conn[c].frames]_vars

\* C35 -- eventual delivery: under fair scheduling of the stream, every event
\* enqueued into a session's queue while its single stream stays connected is
\* eventually yielded to that stream as a data frame; each loop iteration
\* yields exactly one frame, a data frame if an event is available within the
\* wait and a keepalive frame otherwise, and a keepalive never consumes or
\* drops an event.
C35_EventualDelivery ==
    /\ []C35_NothingLost
    /\ C35_EventuallyDelivered
    /\ C35_OneFramePerIteration
    /\ C35_KeepaliveTakesNothing

\* A connected stream that was in its keepalive wait while the job ran has
\* since yielded every event of the job, the last of them just now.
C35_Witness ==
    /\ job["j1"].pc = "done" /\ job["j1"].sid = conn["c1"].sid
    /\ conn["c1"].pc = "yield_data" /\ ~conn["c1"].disconnected
    /\ Len(emitted["j1"]) >= 3
    /\ DataFrames("c1") = SentFrames("j1")
    /\ queues[conn["c1"].log_queue] = <<>>

\* A keepalive is yielded while the job's events are still to come.
C35_WitnessKeepalive ==
    /\ conn["c1"].pc = "yield_keepalive" /\ ~conn["c1"].disconnected
    /\ job["j1"].pc = "queued" /\ job["j1"].sid = conn["c1"].sid
    /\ queues[conn["c1"].log_queue] = <<>>

\* The stream sleeps after a keepalive and the job's events wait in its queue.
C35_WitnessWaiting ==
    /\ conn["c1"].pc = "sleep" /\ ~conn["c1"].disconnected
    /\ job["j1"].pc = "done" /\ job["j1"].sid = conn["c1"].sid
    /\ Len(queues[conn["c1"].log_queue]) = Len(emitted["j1"])
    /\ Len(emitted["j1"]) >= 3

=============================================================================
